---- MODULE Spec2Model ----
(***************************************************************************)
(* State-machine model of the stream orchestration of nrsc5_gui_qt.py:     *)
(* the receiver (nrsc5), player (ffplay) and recorder (ffmpeg) QProcess    *)
(* objects, the radio/recording/intentional-stop flags, and the handlers   *)
(* that start, stop and supervise them.                                    *)
(*                                                                         *)
(* All handlers run on the single GUI thread.  A handler is one action.    *)
(* The blocking calls waitForStarted()/waitForFinished() deliver, nested   *)
(* inside the handler, the signals of the process that is waited for and   *)
(* of no other process; what the external process does during the wait is  *)
(* an input of the action.  Signals of a process nobody waits for are      *)
(* delivered by the event loop, as actions of their own.  Modal message    *)
(* boxes are recorded as events; the nested event loop they spin is not    *)
(* modelled.                                                               *)
(***************************************************************************)
EXTENDS Integers, Sequences, FiniteSets, Bags, TLC

(* ---------------- bounds ---------------- *)
\* number of QProcess objects no handle refers to that have not finished yet
MaxOrphans == 1
\* number of non-empty audio chunks the receiver emits in one run
MaxChunks == 2
\* BER samples appended in one session, and how many of the first of them
\* may also be 0 instead of a fresh value
MaxBerAppends == 302
BerFreeChoices == 1
\* lines in the log of a session whose receiver writes lines of every kind
MaxLogLines == 2
\* history rows a session appends; the receiver chooses its lines freely for
\* the first HistoryFreeChoices rows and once the table is full, and announces
\* a new title with every read in between; reads of a session that add no row
MaxHistoryAppends == 502
HistoryFreeChoices == 1
MaxRepeats == 2
\* lines in the log of a session whose receiver reports the station location
MaxStationLines == 2
\* items in the preset list
MaxPresets == 3

Names == {"nrsc5", "ffplay", "ffmpeg"}

\* the error a started process raises from the event loop: the receiver is
\* only read from, the consumers are only written to
IOErrorOf(n) == IF n = "nrsc5" THEN "ReadError" ELSE "WriteError"
ExitStatuses == {"NormalExit", "CrashExit"}

\* what a process does while the GUI thread blocks in waitForFinished()
FinOutcomes == {"timeout", "NormalExit", "CrashExit"}
\* ... and while it blocks in waitForStarted()
StartOutcomes == {"started", "failed", "timeout"}
\* a process that is still starting when it is waited for may also fail to start
RollbackOutcomes == FinOutcomes \cup {"failed"}

(* ---------------- input texts of the tuning fields ---------------- *)
FreqTexts == {"106.9", "0", "-5", "abc", "", "nan"}
HostTexts == {"", "192.168.0.162"}
PortTexts == {"1234", "", "x", "0", "65536"}

(* ---------------- texts and regular expressions ---------------- *)
\* a text (str) is a sequence of characters; a character is a string that
\* names it: "a", " ", "emdash"
DigitChars == <<"0", "1", "2", "3", "4", "5", "6", "7", "8", "9">>
Digits == {DigitChars[i] : i \in DOMAIN DigitChars}
DigitVal(c) == (CHOOSE i \in DOMAIN DigitChars : DigitChars[i] = c) - 1

UpperCase == <<"A", "B", "C", "D", "E", "F", "G", "H", "I", "J", "K", "L", "M",
               "N", "O", "P", "Q", "R", "S", "T", "U", "V", "W", "X", "Y", "Z">>
LowerCase == <<"a", "b", "c", "d", "e", "f", "g", "h", "i", "j", "k", "l", "m",
               "n", "o", "p", "q", "r", "s", "t", "u", "v", "w", "x", "y", "z">>

\* c.lower()
Lower(c) ==
    IF \E i \in DOMAIN UpperCase : UpperCase[i] = c
    THEN LowerCase[CHOOSE i \in DOMAIN UpperCase : UpperCase[i] = c]
    ELSE c

\* the characters \s matches
Whitespace == {" ", "\t"}

\* None where a str is expected
NoneText == <<"None">>

\* the text of a label that shows nothing: an em dash
Dash == <<"emdash">>

SetMin(A) == CHOOSE x \in A : \A y \in A : x <= y
SetMax(A) == CHOOSE x \in A : \A y \in A : x >= y

\* str.strip()
strip(str) ==
    IF \A i \in DOMAIN str : str[i] \in Whitespace THEN <<>>
    ELSE SubSeq(str, SetMin({i \in DOMAIN str : str[i] \notin Whitespace}),
                     SetMax({i \in DOMAIN str : str[i] \notin Whitespace}))

\* where the longest run of characters of class that starts at p ends:
\* p - 1 if there is none
RunEnd(str, p, class) ==
    CHOOSE q \in (p - 1)..Len(str) :
        /\ \A i \in p..q : str[i] \in class
        /\ q = Len(str) \/ str[q + 1] \notin class

\* the literal lit stands at position p of str; ic = re.IGNORECASE
MatchesAt(str, p, lit, ic) ==
    /\ p + Len(lit) - 1 <= Len(str)
    /\ \A i \in DOMAIN lit :
          IF ic THEN Lower(str[p + i - 1]) = Lower(lit[i])
                ELSE str[p + i - 1] = lit[i]

NoMatch == [ok |-> FALSE, groups |-> <<>>]

\* [0-9eE+-] and [0-9.+-]
NumberChars == Digits \cup {"e", "E", "+", "-"}
CoordChars == Digits \cup {".", "+", "-"}

BerLiteral == <<"B", "E", "R", ":">>

\* BER:\s*([0-9]*\.?[0-9eE+-]+) matched at p; s is where the group starts,
\* d where its leading digits end
re_ber_group(line, s, d) ==
    IF d + 2 <= Len(line) /\ line[d + 1] = "." /\ line[d + 2] \in NumberChars
    THEN [ok |-> TRUE,
          groups |-> <<SubSeq(line, s, RunEnd(line, d + 2, NumberChars))>>]
    ELSE IF RunEnd(line, s, NumberChars) >= s
    THEN [ok |-> TRUE, groups |-> <<SubSeq(line, s, RunEnd(line, s, NumberChars))>>]
    ELSE NoMatch

re_ber_at(line, p) ==
    IF ~MatchesAt(line, p, BerLiteral, FALSE) THEN NoMatch
    ELSE re_ber_group(line, RunEnd(line, p + 4, Whitespace) + 1,
                      RunEnd(line, RunEnd(line, p + 4, Whitespace) + 1, Digits))

\* self.re_ber.search(line): the leftmost match
re_ber(line) ==
    IF \E p \in DOMAIN line : re_ber_at(line, p).ok
    THEN re_ber_at(line, SetMin({p \in DOMAIN line : re_ber_at(line, p).ok}))
    ELSE NoMatch

\* <lit>\s*(.+) with re.IGNORECASE matched at p: the group is the rest of
\* the line after the white space; if white space is all there is, \s* gives
\* its last character back to the group
re_field_at(line, p, lit) ==
    IF ~MatchesAt(line, p, lit, TRUE) \/ p + Len(lit) > Len(line) THEN NoMatch
    ELSE IF RunEnd(line, p + Len(lit), Whitespace) = Len(line)
    THEN [ok |-> TRUE, groups |-> <<SubSeq(line, Len(line), Len(line))>>]
    ELSE [ok |-> TRUE,
          groups |-> <<SubSeq(line, RunEnd(line, p + Len(lit), Whitespace) + 1,
                              Len(line))>>]

re_field(line, lit) ==
    IF \E p \in DOMAIN line : re_field_at(line, p, lit).ok
    THEN re_field_at(line, SetMin({p \in DOMAIN line : re_field_at(line, p, lit).ok}),
                     lit)
    ELSE NoMatch

TitleLiteral == <<"T", "i", "t", "l", "e", ":">>
ArtistLiteral == <<"A", "r", "t", "i", "s", "t", ":">>
AlbumLiteral == <<"A", "l", "b", "u", "m", ":">>

\* self.re_title.search(line), self.re_artist.search(line),
\* self.re_album.search(line)
re_title(line) == re_field(line, TitleLiteral)
re_artist(line) == re_field(line, ArtistLiteral)
re_album(line) == re_field(line, AlbumLiteral)

StationLiteral == <<"S", "t", "a", "t", "i", "o", "n", " ",
                    "l", "o", "c", "a", "t", "i", "o", "n", ":">>

\* ([0-9.+-]+), at s: [ok, from, to, next], next = the position after the
\* character sep that has to follow the group
CoordGroup(line, s, seps) ==
    [ok   |-> /\ RunEnd(line, s, CoordChars) >= s
              /\ RunEnd(line, s, CoordChars) < Len(line)
              /\ line[RunEnd(line, s, CoordChars) + 1] \in seps,
     from |-> s,
     to   |-> RunEnd(line, s, CoordChars),
     next |-> RunEnd(line, s, CoordChars) + 2]

\* the position after the white space that starts at p
SkipSpace(line, p) == RunEnd(line, p, Whitespace) + 1

\* the second and third group, g1 being the first
re_station_loc_rest(line, g1, g2, g3) ==
    IF g1.ok /\ g2.ok /\ g3.ok
    THEN [ok |-> TRUE,
          groups |-> <<SubSeq(line, g1.from, g1.to), SubSeq(line, g2.from, g2.to),
                       SubSeq(line, g3.from, g3.to)>>]
    ELSE NoMatch

StationGroup1(line, p) == CoordGroup(line, SkipSpace(line, p + Len(StationLiteral)), {","})
StationGroup2(line, p) ==
    CoordGroup(line, SkipSpace(line, StationGroup1(line, p).next), {","})
StationGroup3(line, p) ==
    CoordGroup(line, SkipSpace(line, StationGroup2(line, p).next), {"m", "M"})

\* Station location:\s*([0-9.+-]+),\s*([0-9.+-]+),\s*([0-9.+-]+)m with
\* re.IGNORECASE matched at p
re_station_loc_at(line, p) ==
    IF ~MatchesAt(line, p, StationLiteral, TRUE) THEN NoMatch
    ELSE IF ~StationGroup1(line, p).ok THEN NoMatch
    ELSE IF ~StationGroup2(line, p).ok THEN NoMatch
    ELSE re_station_loc_rest(line, StationGroup1(line, p), StationGroup2(line, p),
                             StationGroup3(line, p))

\* self.re_station_loc.search(line)
re_station_loc(line) ==
    IF \E p \in DOMAIN line : re_station_loc_at(line, p).ok
    THEN re_station_loc_at(line,
             SetMin({p \in DOMAIN line : re_station_loc_at(line, p).ok}))
    ELSE NoMatch

(* ---------------- float(str) ---------------- *)
\* the number the digits str[i..j] write
RECURSIVE DigitsVal(_, _, _)
DigitsVal(str, i, j) ==
    IF j < i THEN 0 ELSE 10 * DigitsVal(str, i, j - 1) + DigitVal(str[j])

\* m * 10^k, towards zero when k < 0
Scale10(m, k) == IF k >= 0 THEN m * 10^k ELSE m \div 10^(0 - k)

\* the parts of a number text: sign, digits i..a, ".", digits a+2..b,
\* exponent e.., its digits x..Len(str)
FloatParts(str) ==
    LET i == IF str # <<>> /\ str[1] \in {"+", "-"} THEN 2 ELSE 1
        a == RunEnd(str, i, Digits)
        dot == a + 1 <= Len(str) /\ str[a + 1] = "."
        b == IF dot THEN RunEnd(str, a + 2, Digits) ELSE a
        hasexp == b + 1 <= Len(str) /\ str[b + 1] \in {"e", "E"}
        x == IF hasexp /\ b + 2 <= Len(str) /\ str[b + 2] \in {"+", "-"}
             THEN b + 3 ELSE b + 2
    IN [neg |-> str # <<>> /\ str[1] = "-",
        i |-> i, a |-> a, dot |-> dot, b |-> b,
        fracdigits |-> IF dot THEN b - (a + 1) ELSE 0,
        hasexp |-> hasexp,
        expneg |-> hasexp /\ b + 2 <= Len(str) /\ str[b + 2] = "-",
        x |-> x,
        ok |-> /\ (a >= i \/ (dot /\ b >= a + 2))
               /\ IF hasexp
                  THEN x <= Len(str) /\ RunEnd(str, x, Digits) = Len(str)
                  ELSE b = Len(str)]

\* the value of a number text with parts f, in thousandths
FloatValue(str, f) ==
    LET mant == DigitsVal(str, f.i, f.a) * 10^f.fracdigits
                + DigitsVal(str, f.a + 2, f.b)
        e == IF f.hasexp THEN DigitsVal(str, f.x, Len(str)) ELSE 0
        mag == Scale10(mant, 3 - f.fracdigits + (IF f.expneg THEN 0 - e ELSE e))
    IN IF f.neg THEN 0 - mag ELSE mag

\* float(str) accepts "nan" in any case, with or without a sign
IsNanText(str) ==
    \E i \in {1, 2} :
        /\ i = 2 => (str # <<>> /\ str[1] \in {"+", "-"})
        /\ Len(str) = i + 2
        /\ <<Lower(str[i]), Lower(str[i + 1]), Lower(str[i + 2])>> = <<"n", "a", "n">>

\* float(str) of Python on a text of digits, ".", "e", "E", "+", "-" or
\* letters: ok = no ValueError; nan = the value is not-a-number; val = the
\* value in thousandths, digits beyond the thousandth dropped
FloatOf(str) ==
    IF IsNanText(str) THEN [ok |-> TRUE, nan |-> TRUE, val |-> 0]
    ELSE IF FloatParts(str).ok
    THEN [ok |-> TRUE, nan |-> FALSE, val |-> FloatValue(str, FloatParts(str))]
    ELSE [ok |-> FALSE, nan |-> FALSE, val |-> 0]

(* ---------------- numbers and positions ---------------- *)
\* an attribute that holds a float or None: the value in thousandths, or
\* not-a-number
NoneNumber == [known |-> FALSE, nan |-> FALSE, val |-> 0]
Number(v) == [known |-> TRUE, nan |-> FALSE, val |-> v]
NotANumber == [known |-> TRUE, nan |-> TRUE, val |-> 0]

\* self.relpos_text and self.vert_text: "N/A", or what _update_distances()
\* computed; the figures of the distances are left out
NotAvailable == [kind |-> "N/A", cardinal |-> "-", bearing |-> 0, unit |-> "-"]

Abs(x) == IF x < 0 THEN 0 - x ELSE x

\* 1000 * tan(d degrees), d = 0..45, and 1000 * cos(d degrees), d = 0..90
TanTable == <<0, 17, 35, 52, 70, 87, 105, 123, 141, 158, 176, 194, 213, 231, 249,
             268, 287, 306, 325, 344, 364, 384, 404, 424, 445, 466, 488, 510, 532,
             554, 577, 601, 625, 649, 675, 700, 727, 754, 781, 810, 839, 869, 900,
             933, 966, 1000>>
CosTable == <<1000, 1000, 999, 999, 998, 996, 995, 993, 990, 988, 985, 982, 978,
             974, 970, 966, 961, 956, 951, 946, 940, 934, 927, 921, 914, 906, 899,
             891, 883, 875, 866, 857, 848, 839, 829, 819, 809, 799, 788, 777, 766,
             755, 743, 731, 719, 707, 695, 682, 669, 656, 643, 629, 616, 602, 588,
             574, 559, 545, 530, 515, 500, 485, 469, 454, 438, 423, 407, 391, 375,
             358, 342, 326, 309, 292, 276, 259, 242, 225, 208, 191, 174, 156, 139,
             122, 105, 87, 70, 52, 35, 17, 0>>

VARIABLES
    radio_running,      \* self.radio_running
    recording,          \* self.recording
    stopping_radio,     \* self.stopping_radio
    proc_nrsc5,         \* self.proc_nrsc5: a QProcess object, or None
    proc_play,          \* self.proc_play
    proc_rec,           \* self.proc_rec
    orphans,            \* the QProcess objects no handle refers to that
                        \* have not finished (they are children of the
                        \* window, their signals stay connected)
    record_btn_enabled, \* self.record_btn.isEnabled()
    record_timer_active,\* self.record_timer.isActive()
    record_start_time,  \* self.record_start_time is not None
    status_text,        \* self.status_text
    freq_text,          \* self.freq_edit.text()
    host_text,          \* self.host_edit.text()
    port_text,          \* self.port_edit.text()
    closed,             \* closeEvent has run
    nchunks,            \* number of non-empty chunks read from the receiver
    ber_history,        \* self.ber_history
    ber_pushed,         \* the values given to _update_ber_graph() since
                        \* ber_history was last emptied
    log_text,           \* the lines of self.log_text
    title_label,        \* self.title_label.text()
    artist_label,       \* self.artist_label.text()
    album_label,        \* self.album_label.text()
    last_title,         \* self.last_title
    last_artist,        \* self.last_artist
    last_album,         \* self.last_album
    history_table,      \* the rows of self.history_table
    history_pushed,     \* the rows inserted since history_table was last
                        \* emptied
    station_lat,        \* self.station_lat
    station_lon,        \* self.station_lon
    station_alt,        \* self.station_alt
    user_lat_edit,      \* self.user_lat_edit.text()
    user_lon_edit,      \* self.user_lon_edit.text()
    user_alt_edit,      \* self.user_alt_edit.text()
    units_index,        \* self.units_combo.currentIndex()
    user_lat,           \* self.user_lat
    user_lon,           \* self.user_lon
    user_alt,           \* self.user_alt
    relpos_text,        \* self.relpos_text
    vert_text,          \* self.vert_text
    stderr_text,        \* what readAllStandardError() gave the handler that
                        \* ran last
    preset_list,        \* the items of self.preset_list
    preset_file,        \* the file the dialogs of the presets tab name
    trace               \* the events of the handler that ran last

vars == <<radio_running, recording, stopping_radio, proc_nrsc5, proc_play,
          proc_rec, orphans, record_btn_enabled, record_timer_active,
          record_start_time, status_text, freq_text, host_text, port_text,
          closed, nchunks, ber_history, ber_pushed, log_text, title_label,
          artist_label, album_label, last_title, last_artist, last_album,
          history_table, history_pushed, station_lat, station_lon, station_alt,
          user_lat_edit, user_lon_edit, user_alt_edit, units_index, user_lat,
          user_lon, user_alt, relpos_text, vert_text, stderr_text, preset_list,
          preset_file, trace>>

(* ---------------- QProcess objects ---------------- *)
\* state: QProcess.state()
\* os:    the process behind it: none, alive, or dead (exited, not yet
\*        noticed by Qt, so state() still answers Running)
\* exit:  its exit status once dead
\* cause: "stop" if it died after the orchestrator signalled it or closed
\*        its input, "own" if it died by itself
\* sig:   strongest signal the orchestrator sent it
\* sigflag: stopping_radio at the time it was last signalled or its input
\*        was closed
\* wopen: its write channel is open
\* stdin: the chunks written to it
None == [name |-> "-", state |-> "None", os |-> "none", exit |-> "-",
         cause |-> "-", sig |-> "none", sigflag |-> FALSE, wopen |-> FALSE,
         stdin |-> <<>>]

NewProc(n) == [name |-> n, state |-> "Starting", os |-> "alive", exit |-> "-",
               cause |-> "-", sig |-> "none", sigflag |-> FALSE, wopen |-> TRUE,
               stdin |-> <<>>]

\* the three handles; a handler refers to a QProcess object by its handle,
\* or as "sender" when no handle refers to the object that emits the signal
HandleNames == {"proc_nrsc5", "proc_play", "proc_rec"}

\* the state the handlers work on: the variables, with nothing read and no
\* event yet, the sender, and the nesting depth of stop_stream, which is 0
\* between handlers
S == [radio_running |-> radio_running, recording |-> recording,
      stopping_radio |-> stopping_radio, proc_nrsc5 |-> proc_nrsc5,
      proc_play |-> proc_play, proc_rec |-> proc_rec, orphans |-> orphans,
      record_btn_enabled |-> record_btn_enabled,
      record_timer_active |-> record_timer_active,
      record_start_time |-> record_start_time, status_text |-> status_text,
      freq_text |-> freq_text, host_text |-> host_text, port_text |-> port_text,
      closed |-> closed, nchunks |-> nchunks,
      ber_history |-> ber_history, ber_pushed |-> ber_pushed,
      log_text |-> log_text,
      title_label |-> title_label,
      artist_label |-> artist_label,
      album_label |-> album_label,
      last_title |-> last_title,
      last_artist |-> last_artist,
      last_album |-> last_album,
      history_table |-> history_table,
      history_pushed |-> history_pushed,
      station_lat |-> station_lat,
      station_lon |-> station_lon,
      station_alt |-> station_alt,
      user_lat_edit |-> user_lat_edit,
      user_lon_edit |-> user_lon_edit,
      user_alt_edit |-> user_alt_edit,
      units_index |-> units_index,
      user_lat |-> user_lat,
      user_lon |-> user_lon,
      user_alt |-> user_alt,
      relpos_text |-> relpos_text,
      vert_text |-> vert_text,
      stderr_text |-> <<>>,
      preset_list |-> preset_list,
      preset_file |-> preset_file,
      metadata_changed |-> FALSE,
      trace |-> <<>>, sender |-> None, depth |-> 0]

\* one observable step of a handler, stamped with the flags at that moment
Evt(s, ev, r, arg, report, visible) ==
    [s EXCEPT !.trace = Append(@,
        [ev |-> ev, ref |-> r,
         name |-> IF r = "-" THEN "-" ELSE s[r].name,
         arg |-> arg, flag |-> s.stopping_radio, rec |-> s.recording,
         run |-> s.radio_running, depth |-> s.depth,
         cause |-> IF r = "-" THEN "-" ELSE s[r].cause,
         sigflag |-> IF r = "-" THEN FALSE ELSE s[r].sigflag,
         report |-> report, visible |-> visible])]

(* ---------------- process diagnostics ---------------- *)
\* _on_process_error(name, error)
on_process_error(s, r, error) ==
    IF s.stopping_radio /\ error = "Crashed"
    THEN Evt(s, "error", r, error, "terminated (user stop)", FALSE)
    ELSE IF s[r].name = "nrsc5"
         THEN [Evt(s, "error", r, error, "error", TRUE)
                 EXCEPT !.status_text = "Status: nrsc5 error"]
         ELSE Evt(s, "error", r, error, "error", FALSE)

\* an _on_process_finished() that does not look at stopping_radio
on_process_finished_unclassified(s, r, exitStatus) ==
    Evt(s, "finished", r, exitStatus,
        IF exitStatus = "NormalExit" THEN "finished normal"
                                     ELSE "finished crashed", FALSE)

\* an _on_process_finished() that ends the recording when the recorder exits
on_process_finished_ends_recording(s, r, exitStatus) ==
    [Evt(s, "finished", r, exitStatus,
         IF s.stopping_radio /\ exitStatus = "CrashExit"
         THEN "terminated (user stop)"
         ELSE IF exitStatus = "NormalExit" THEN "finished normal"
                                          ELSE "finished crashed", FALSE)
       EXCEPT !.recording = IF s[r].name = "ffmpeg" THEN FALSE ELSE @]

\* _on_process_finished(name, exitCode, exitStatus)
on_process_finished(s, r, exitStatus) ==
    IF s.stopping_radio /\ exitStatus = "CrashExit"
    THEN Evt(s, "finished", r, exitStatus, "terminated (user stop)", FALSE)
    ELSE Evt(s, "finished", r, exitStatus,
             IF exitStatus = "NormalExit" THEN "finished normal"
                                          ELSE "finished crashed", FALSE)

(* ---------------- QProcess calls and signals ---------------- *)
RECURSIVE stop_stream(_, _), on_nrsc5_finished(_, _, _, _),
          process_died(_, _, _), waitForFinished(_, _, _),
          kill_process(_, _, _), stop_recording(_, _)

SetProc(s, r, f, v) == [s EXCEPT ![r][f] = v]

\* self.<handle> = None, or a new object: the object it referred to lives
\* on as a child of the window until it has finished
SetHandle(s, h, new) ==
    [s EXCEPT ![h] = new,
              !.orphans = IF s[h] # None /\ s[h].state # "NotRunning"
                          THEN @ (+) SetToBag({[s[h] EXCEPT !.stdin = <<>>]})
                          ELSE @]

\* proc.terminate(): the graceful signal
terminate(s, r) ==
    [Evt(s, "terminate", r, s[r].sig, "-", FALSE)
       EXCEPT ![r].sig = "term", ![r].sigflag = s.stopping_radio]

\* proc.kill(): the forceful signal; a live process dies of it at once, its
\* exit is noticed later
kill(s, r) ==
    IF s[r].os = "none" THEN s
    ELSE LET s1 == Evt(s, "kill", r, s[r].sig, "-", FALSE)
         IN [s1 EXCEPT ![r] =
                IF @.os = "alive"
                THEN [@ EXCEPT !.os = "dead", !.exit = "CrashExit", !.cause = "stop",
                               !.sig = "kill", !.sigflag = s.stopping_radio]
                ELSE [@ EXCEPT !.sig = "kill", !.sigflag = s.stopping_radio]]

\* proc.closeWriteChannel()
closeWriteChannel(s, r) ==
    [Evt(s, "closeWrite", r, "-", "-", FALSE)
       EXCEPT ![r].wopen = FALSE, ![r].sigflag = s.stopping_radio]

\* why a process that exits now has exited
CauseOf(pr) == IF pr.sig # "none" \/ ~pr.wopen THEN "stop" ELSE "own"

\* the slots connected to errorOccurred of the three processes
errorOccurred(s, r, error) == on_process_error(s, r, error)

\* the slots connected to finished of the three processes
finished(s, r, exitStatus, out) ==
    IF s[r].name = "nrsc5"
    THEN on_nrsc5_finished(s, r, exitStatus, out)
    ELSE on_process_finished(s, r, exitStatus)

\* Qt notices that the process is dead: errorOccurred(Crashed) while state()
\* still answers Running, then state() becomes NotRunning, then finished()
\* if the process had started
process_died(s, r, out) ==
    LET st  == s[r].exit
        was == s[r].state = "Running"
        s1  == IF st = "CrashExit" THEN errorOccurred(s, r, "Crashed") ELSE s
        s2  == [s1 EXCEPT ![r].state = "NotRunning", ![r].os = "none"]
    IN IF was THEN finished(s2, r, st, out) ELSE s2

\* the process fails to start: errorOccurred(FailedToStart), state NotRunning
failed_to_start(s, r) ==
    LET s1 == errorOccurred(s, r, "FailedToStart")
    IN [s1 EXCEPT ![r].state = "NotRunning", ![r].os = "none"]

\* the process exits with status o, unless it is dead already
exits(s, r, o) ==
    IF s[r].os = "dead" THEN s
    ELSE [s EXCEPT ![r] = [@ EXCEPT !.state = "Running", !.os = "dead",
                                    !.exit = o, !.cause = CauseOf(s[r])]]

\* proc.waitForFinished(msecs): [s, ok]; out.proc says what each process
\* does during the wait
waitForFinished(s, r, out) ==
    LET pr == s[r]
        o  == out.proc[pr.name]
    IN CASE pr.state = "NotRunning" -> [s |-> s, ok |-> FALSE]
         [] pr.os = "dead" \/ o \in ExitStatuses ->
                [s |-> process_died(exits(s, r, o), r, out), ok |-> TRUE]
         [] pr.state = "Starting" /\ o = "failed" ->
                [s |-> failed_to_start(s, r), ok |-> FALSE]
         [] OTHER -> [s |-> s, ok |-> FALSE]

\* proc.waitForStarted(msecs): [s, ok]
waitForStarted(s, r, o) ==
    CASE o = "started" ->
            [s |-> Evt(SetProc(s, r, "state", "Running"), "started", r, "-", "-", FALSE),
             ok |-> TRUE]
      [] o = "failed"  -> [s |-> failed_to_start(s, r), ok |-> FALSE]
      [] OTHER         -> [s |-> s, ok |-> FALSE]

(* ---------------- helpers ---------------- *)
\* if not proc.waitForFinished(1000): proc.kill()
kill_unless_finished(w, r) == IF ~w.ok THEN kill(w.s, r) ELSE w.s

\* _kill_process(proc)
kill_process(s, r, out) ==
    IF s[r] # None /\ s[r].state # "NotRunning"
    THEN kill_unless_finished(waitForFinished(terminate(s, r), r, out), r)
    ELSE s

\* _update_ui_state(running)
update_ui_state(s, running) ==
    [s EXCEPT !.record_btn_enabled = running,
              !.status_text = IF running
                              THEN (IF ~s.recording THEN "Status: Listening" ELSE @)
                              ELSE "Status: Idle"]

(* ---------------- recording controls ---------------- *)
\* if self.proc_rec.state() == Running: self.proc_rec.terminate()
terminate_if_running(s, r) ==
    IF s[r].state = "Running" THEN terminate(s, r) ELSE s

\* a stop_recording() that terminates the recorder whatever the wait brought
finish_recorder_always_terminates(s, out) ==
    terminate(
        waitForFinished(closeWriteChannel(s, "proc_rec"), "proc_rec", out).s,
        "proc_rec")

\* stop_recording(), the recorder is running: close its input, wait for it
\* to finish, terminate it if it has not
finish_recorder(s, out) ==
    terminate_if_running(
        waitForFinished(closeWriteChannel(s, "proc_rec"), "proc_rec", out).s,
        "proc_rec")

\* a stop_recording() that leaves the recording clock running
recording_off_keeps_clock(s) ==
    SetHandle([s EXCEPT !.recording = FALSE,
                        !.record_start_time = FALSE,
                        !.status_text = IF s.radio_running
                                        THEN "Status: Listening"
                                        ELSE "Status: Idle"],
              "proc_rec", None)

\* stop_recording(), the rest: flag, clock, status line, handle
recording_off(s) ==
    SetHandle([s EXCEPT !.recording = FALSE,
                        !.record_timer_active = FALSE,
                        !.record_start_time = FALSE,
                        !.status_text = IF s.radio_running
                                        THEN "Status: Listening"
                                        ELSE "Status: Idle"],
              "proc_rec", None)

\* a stop_recording() without the early return
stop_recording_unguarded(s, out) ==
    recording_off(IF s.proc_rec # None /\ s.proc_rec.state = "Running"
                  THEN finish_recorder(s, out)
                  ELSE s)

\* stop_recording()
stop_recording(s, out) ==
    IF ~s.recording THEN s
    ELSE recording_off(IF s.proc_rec # None /\ s.proc_rec.state = "Running"
                       THEN finish_recorder(s, out)
                       ELSE s)

(* ---------------- streaming controls ---------------- *)
\* stop_stream() is entered
stop_begin(s) ==
    Evt([s EXCEPT !.depth = @ + 1], "stop_begin", "-", "-", "-", FALSE)

\* stop_stream(), after the processes are stopped: handles, flag, buttons
stop_end(s) ==
    [Evt(update_ui_state(
           [SetHandle(SetHandle(s, "proc_nrsc5", None), "proc_play", None)
              EXCEPT !.radio_running = FALSE],
           FALSE),
         "stop_end", "-", "-", "-", FALSE)
       EXCEPT !.depth = @ - 1]

\* a stop_stream() that leaves the recording as it is
stop_stream_keeps_recording(s, out) ==
    stop_end(
      kill_process(
        kill_process(stop_begin(s), "proc_nrsc5", out),
        "proc_play", out))

\* a stop_stream() that stops the player before the receiver
stop_stream_player_first(s, out) ==
    stop_end(
      kill_process(
        kill_process(stop_recording(stop_begin(s), out), "proc_play", out),
        "proc_nrsc5", out))

\* stop_stream(): the recording, the receiver, the player, then the rest
stop_stream(s, out) ==
    stop_end(
      kill_process(
        kill_process(stop_recording(stop_begin(s), out), "proc_nrsc5", out),
        "proc_play", out))

\* _on_nrsc5_finished(exitCode, exitStatus)
on_nrsc5_finished(s, r, exitStatus, out) ==
    LET s1 == on_process_finished(s, r, exitStatus)
    IN IF s1.radio_running /\ ~s1.stopping_radio
       THEN stop_stream(s1, out)
       ELSE s1

(* ---------------- input validation ---------------- *)
\* float(text) of Python on the texts of FreqTexts: ok = no ValueError;
\* nan = the value is not-a-number; tenths = the value, in tenths
float(text) ==
    CASE text = "106.9" -> [ok |-> TRUE,  nan |-> FALSE, tenths |-> 1069]
      [] text = "0"     -> [ok |-> TRUE,  nan |-> FALSE, tenths |-> 0]
      [] text = "-5"    -> [ok |-> TRUE,  nan |-> FALSE, tenths |-> -50]
      [] text = "nan"   -> [ok |-> TRUE,  nan |-> TRUE,  tenths |-> 0]
      [] OTHER          -> [ok |-> FALSE, nan |-> FALSE, tenths |-> 0]

\* int(text) of Python on the texts of PortTexts
int(text) ==
    CASE text = "1234"  -> [ok |-> TRUE,  val |-> 1234]
      [] text = "0"     -> [ok |-> TRUE,  val |-> 0]
      [] text = "65536" -> [ok |-> TRUE,  val |-> 65536]
      [] OTHER          -> [ok |-> FALSE, val |-> 0]

\* freq_val <= 0 on IEEE floats: every comparison with not-a-number is false
LeqZero(v) == ~v.nan /\ v.tenths <= 0

\* _validate_start_inputs(): the warning it shows, or "ok"
validate_start_inputs(s) ==
    LET freq_val == float(s.freq_text)
        port_val == int(s.port_text)
    IN CASE ~freq_val.ok      -> "Frequency must be a number (MHz)."
         [] LeqZero(freq_val) -> "Frequency must be greater than zero."
         [] s.host_text # "" /\ s.port_text = "" ->
                "Port is required when a remote rtl_tcp host is specified."
         [] s.host_text # "" /\ ~port_val.ok -> "Port must be an integer."
         [] s.host_text # "" /\ ~(1 <= port_val.val /\ port_val.val <= 65535) ->
                "Port must be between 1 and 65535."
         [] OTHER -> "ok"

(* ---------------- spawning ---------------- *)
\* self.<handle> = QtCore.QProcess(self) ... self.<handle>.start(program, args)
Spawn(s, h, n) == Evt(SetHandle(s, h, NewProc(n)), "spawn", h, "-", "-", FALSE)

\* a _reset_labels() that keeps the now-playing history
reset_labels_keeps_history(s) ==
    [s EXCEPT !.title_label = Dash, !.artist_label = Dash, !.album_label = Dash,
              !.relpos_text = NotAvailable, !.vert_text = NotAvailable,
              !.record_timer_active = FALSE, !.record_start_time = FALSE,
              !.station_lat = NoneNumber, !.station_lon = NoneNumber,
              !.station_alt = NoneNumber,
              !.ber_history = <<>>, !.ber_pushed = <<>>,
              !.log_text = <<>>]

\* _reset_labels(): the labels, the position, the recording clock, the
\* station, the BER history, the log, the now-playing history
reset_labels(s) ==
    [s EXCEPT !.title_label = Dash, !.artist_label = Dash, !.album_label = Dash,
              !.relpos_text = NotAvailable, !.vert_text = NotAvailable,
              !.record_timer_active = FALSE, !.record_start_time = FALSE,
              !.station_lat = NoneNumber, !.station_lon = NoneNumber,
              !.station_alt = NoneNumber,
              !.ber_history = <<>>, !.ber_pushed = <<>>,
              !.log_text = <<>>,
              !.last_title = NoneText, !.last_artist = NoneText,
              !.last_album = NoneText,
              !.history_table = <<>>, !.history_pushed = <<>>]

\* start_stream(), the player has not started: warning, clean-up
player_not_started(s, out) ==
    SetHandle(
        kill_process(Evt(s, "dialog", "-", "Failed to start ffplay.", "-", TRUE),
                     "proc_play", out),
        "proc_play", None)

\* a start_stream() that only forgets the processes when the receiver has
\* not started
start_receiver_forgets(w, out) ==
    IF w.ok
    THEN reset_labels(update_ui_state([w.s EXCEPT !.radio_running = TRUE], TRUE))
    ELSE stop_end(stop_begin(
           Evt(w.s, "dialog", "-", "Failed to start nrsc5.", "-", TRUE)))

\* start_stream(), the player has started: the receiver
start_receiver(w, out) ==
    IF w.ok
    THEN reset_labels(update_ui_state([w.s EXCEPT !.radio_running = TRUE], TRUE))
    ELSE stop_stream(Evt(w.s, "dialog", "-", "Failed to start nrsc5.", "-", TRUE),
                     out)

\* a start_stream() that starts the receiver whatever the player did
start_player_unconditional(w, out) ==
    start_receiver(
        waitForStarted(Spawn(w.s, "proc_nrsc5", "nrsc5"), "proc_nrsc5",
                       out.started["nrsc5"]),
        out)

\* start_stream(), inputs valid: the player, then the receiver
start_player(w, out) ==
    IF ~w.ok
    THEN player_not_started(w.s, out)
    ELSE start_receiver(
           waitForStarted(Spawn(w.s, "proc_nrsc5", "nrsc5"), "proc_nrsc5",
                          out.started["nrsc5"]),
           out)

\* start_stream()
start_stream(s, out) ==
    IF s.radio_running THEN s
    ELSE IF validate_start_inputs(s) # "ok"
    THEN Evt(s, "dialog", "-", validate_start_inputs(s), "-", TRUE)
    ELSE start_player(
           waitForStarted(Spawn(s, "proc_play", "ffplay"), "proc_play",
                          out.started["ffplay"]),
           out)

\* a toggle_radio() that does not clear the flag after the stop
toggle_radio_keeps_flag(s, out) ==
    IF s.radio_running
    THEN stop_stream([s EXCEPT !.stopping_radio = TRUE], out)
    ELSE start_stream(s, out)

\* toggle_radio()
toggle_radio(s, out) ==
    IF s.radio_running
    THEN [stop_stream([s EXCEPT !.stopping_radio = TRUE], out)
            EXCEPT !.stopping_radio = FALSE]
    ELSE start_stream(s, out)

\* _tune_preset_item(item): freq is the preset's frequency text
tune_preset_item(s, freq, out1, out2) ==
    LET s1 == IF freq # "" THEN [s EXCEPT !.freq_text = freq] ELSE s
    IN IF s1.radio_running
       THEN start_stream(
              [stop_stream([s1 EXCEPT !.stopping_radio = TRUE], out1)
                 EXCEPT !.stopping_radio = FALSE],
              out2)
       ELSE s1

\* start_recording()
start_recording(s, out) ==
    IF ~s.radio_running THEN s
    ELSE LET s1 == Spawn(s, "proc_rec", "ffmpeg")
             w  == waitForStarted(s1, "proc_rec", out.started["ffmpeg"])
         IN IF w.ok
            THEN [w.s EXCEPT !.recording = TRUE,
                             !.status_text = "Status: Listening & Recording",
                             !.record_start_time = TRUE,
                             !.record_timer_active = TRUE]
            ELSE Evt(w.s, "dialog", "-", "Could not start ffmpeg recorder.", "-", TRUE)

\* a toggle_recording() that starts a recording whatever the state
toggle_recording_always_starts(s, out) == start_recording(s, out)

\* toggle_recording()
toggle_recording(s, out) ==
    IF s.recording THEN stop_recording(s, out) ELSE start_recording(s, out)

\* a closeEvent() that clears the flag after the stop, as toggle_radio() does
closeEvent_clears_flag(s, out) ==
    [stop_stream([s EXCEPT !.stopping_radio = TRUE], out)
        EXCEPT !.closed = TRUE, !.stopping_radio = FALSE]

\* closeEvent(event)
closeEvent(s, out) ==
    [stop_stream([s EXCEPT !.stopping_radio = TRUE], out) EXCEPT !.closed = TRUE]

(* ---------------- the data pump ---------------- *)
IsRunning(pr) == pr # None /\ pr.state = "Running"

\* proc.write(data)
write(s, r, data) ==
    Evt([s EXCEPT ![r].stdin = Append(@, data)], "write", r, data, "-", FALSE)

\* a _distribute_audio_data() that feeds the recorder whenever it is running
distribute_audio_data_any_recorder(s, data) ==
    IF s.proc_nrsc5 = None THEN s
    ELSE IF data = 0 THEN s
    ELSE LET s1 == IF IsRunning(s.proc_play) THEN write(s, "proc_play", data) ELSE s
         IN IF IsRunning(s1.proc_rec)
            THEN write(s1, "proc_rec", data)
            ELSE s1

\* _distribute_audio_data(): data is what readAllStandardOutput() returns,
\* 0 for an empty read
distribute_audio_data(s, data) ==
    IF s.proc_nrsc5 = None THEN s
    ELSE IF data = 0 THEN s
    ELSE LET s1 == IF IsRunning(s.proc_play) THEN write(s, "proc_play", data) ELSE s
         IN IF s1.recording /\ IsRunning(s1.proc_rec)
            THEN write(s1, "proc_rec", data)
            ELSE s1

(* ---------------- the BER graph ---------------- *)
\* self.ber_max_points
ber_max_points == 300

\* lst[-n:]
LastN(lst, n) ==
    IF Len(lst) > n THEN SubSeq(lst, Len(lst) - n + 1, Len(lst)) ELSE lst

\* an _update_ber_graph() that keeps the oldest samples on overflow
update_ber_graph_keeps_oldest(s, ber_value) ==
    [s EXCEPT !.ber_history =
                  IF Len(@) + 1 > ber_max_points
                  THEN SubSeq(Append(@, ber_value), 1, ber_max_points)
                  ELSE Append(@, ber_value),
              !.ber_pushed = Append(@, ber_value)]

\* _update_ber_graph(ber_value): the history
update_ber_graph(s, ber_value) ==
    [s EXCEPT !.ber_history =
                  IF Len(@) + 1 > ber_max_points
                  THEN LastN(Append(@, ber_value), ber_max_points)
                  ELSE Append(@, ber_value),
              !.ber_pushed = Append(@, ber_value)]

(* ---------------- the log ---------------- *)
\* self.max_log_lines
max_log_lines == 10000

\* an _append_log_line() that logs nothing
append_log_line_drops(s, line) == s

\* _append_log_line(line)
append_log_line(s, line) ==
    [s EXCEPT !.log_text = LastN(Append(@, line), max_log_lines)]

(* ---------------- distances ---------------- *)
\* a / b towards zero, b > 0
TruncDiv(a, b) == IF a < 0 THEN 0 - ((0 - a) \div b) ELSE a \div b

\* atan(p / q) to the nearest degree, 0 <= p <= q, 0 < q
AtanDeg(p, q) ==
    SetMin({d \in 0..45 :
              \A e \in 0..45 :
                  Abs(p * 1000 - TanTable[d + 1] * q)
                    <= Abs(p * 1000 - TanTable[e + 1] * q)})

\* the angle between the direction (dx, dz) and the north-south axis
AxisAngle(dx, dz) ==
    IF Abs(dx) <= Abs(dz) THEN AtanDeg(Abs(dx), Abs(dz))
                          ELSE 90 - AtanDeg(Abs(dz), Abs(dx))

\* a bearing measured from east, anticlockwise: atan2(North, East)
atan2_degrees_from_east(dx, dz) ==
    CASE dz >= 0 /\ dx > 0  -> AxisAngle(dz, dx)
      [] dz > 0  /\ dx <= 0 -> 180 - AxisAngle(dz, dx)
      [] dz <= 0 /\ dx < 0  -> 180 + AxisAngle(dz, dx)
      [] OTHER               -> (360 - AxisAngle(dz, dx)) % 360

\* (math.degrees(math.atan2(dx, dz)) + 360.0) % 360.0 to the nearest
\* degree, dx and dz not both 0
atan2_degrees(dx, dz) ==
    CASE dx >= 0 /\ dz > 0  -> AxisAngle(dx, dz)
      [] dx > 0  /\ dz <= 0 -> 180 - AxisAngle(dx, dz)
      [] dx <= 0 /\ dz < 0  -> 180 + AxisAngle(dx, dz)
      [] OTHER               -> (360 - AxisAngle(dx, dz)) % 360

Dirs == <<"North", "Northeast", "East", "Southeast",
          "South", "Southwest", "West", "Northwest">>

\* _bearing_to_cardinal(bearing_deg), bearing_deg a whole number of degrees:
\* dirs[int((bearing_deg + 22.5) // 45) % 8]
bearing_to_cardinal(bearing_deg) ==
    Dirs[(((2 * bearing_deg + 45) \div 90) % 8) + 1]

\* math.cos(lat_mean), in thousandths, lat_mean to the nearest degree; sum is
\* the sum of the two latitudes in thousandths of a degree
CosMean(sum) ==
    CosTable[(IF (Abs(sum) + 1000) \div 2000 > 90
              THEN 90 ELSE (Abs(sum) + 1000) \div 2000) + 1]

\* dx and dz of _update_distances() in units of R * pi / 180000: the offset
\* to the east and to the north
EastOffset(s) ==
    TruncDiv(CosMean(s.user_lat.val + s.station_lat.val)
               * (s.station_lon.val - s.user_lon.val), 1000)
NorthOffset(s) == s.station_lat.val - s.user_lat.val

\* relpos of _update_distances()
RelPos(dx, dz, use_metric) ==
    IF dx = 0 /\ dz = 0
    THEN [kind |-> "0 (here)", cardinal |-> "Here", bearing |-> 0, unit |-> "-"]
    ELSE [kind |-> "away",
          cardinal |-> bearing_to_cardinal(atan2_degrees(dx, dz)),
          bearing |-> atan2_degrees(dx, dz),
          unit |-> IF use_metric THEN "km" ELSE "mi"]

\* vert of _update_distances(), dv = station_alt - user_alt
Vert(dv, use_metric) ==
    IF dv = 0
    THEN [kind |-> "0", cardinal |-> "-", bearing |-> 0, unit |-> "-"]
    ELSE [kind |-> IF dv > 0 THEN "above" ELSE "below",
          cardinal |-> "-", bearing |-> 0,
          unit |-> IF use_metric THEN "m" ELSE "ft"]

\* vert of _update_distances() when dv is not-a-number: neither dv == 0 nor
\* dv > 0
VertNan(use_metric) ==
    [kind |-> "below", cardinal |-> "-", bearing |-> 0,
     unit |-> IF use_metric THEN "m" ELSE "ft"]

\* _update_distances(). With a latitude or longitude that is not-a-number
\* the bearing is not-a-number and int() in _bearing_to_cardinal() raises
\* ValueError before relpos_text and vert_text are assigned; the ValueError
\* ends _update_distances() and the handler of the user's fields that called
\* it, and is caught in _parse_metadata_output()
update_distances(s) ==
    IF \E v \in {s.station_lat, s.station_lon, s.station_alt,
                  s.user_lat, s.user_lon, s.user_alt} : ~v.known
    THEN [s EXCEPT !.relpos_text = NotAvailable, !.vert_text = NotAvailable]
    ELSE IF \E v \in {s.station_lat, s.station_lon, s.user_lat, s.user_lon} : v.nan
    THEN s
    ELSE [s EXCEPT
            !.relpos_text = RelPos(EastOffset(s), NorthOffset(s), s.units_index = 0),
            !.vert_text = IF s.station_alt.nan \/ s.user_alt.nan
                          THEN VertNan(s.units_index = 0)
                          ELSE Vert(s.station_alt.val - s.user_alt.val,
                                    s.units_index = 0)]

\* parse(edit) of _update_user_location()
parse(text) ==
    IF strip(text) = <<>> THEN NoneNumber
    ELSE IF FloatOf(strip(text)).nan THEN NotANumber
    ELSE IF FloatOf(strip(text)).ok THEN Number(FloatOf(strip(text)).val)
    ELSE NoneNumber

\* alt_val * 0.3048
FeetToMetres(v) == TruncDiv(v * 381, 1250)

\* self.user_alt of _update_user_location(): alt_val is parse(text), index is
\* self.units_combo.currentIndex()
user_alt_of(alt_val, index) ==
    IF alt_val.known
    THEN (IF index = 0 \/ alt_val.nan THEN alt_val
          ELSE Number(FeetToMetres(alt_val.val)))
    ELSE NoneNumber

\* _update_user_location()
update_user_location(s) ==
    update_distances(
        [s EXCEPT !.user_lat = parse(s.user_lat_edit),
                  !.user_lon = parse(s.user_lon_edit),
                  !.user_alt = user_alt_of(parse(s.user_alt_edit), s.units_index)])

\* _units_changed(index)
units_changed(s, index) == update_user_location([s EXCEPT !.units_index = index])

(* ---------------- presets ---------------- *)
\* a file that does not exist; a file that holds a JSON document
NoFile == [exists |-> FALSE, doc |-> <<>>]
FileWith(doc) == [exists |-> TRUE, doc |-> doc]

\* the keys of a preset, in the order _add_preset() inserts them
PresetKeys == <<"name", "freq", "prog">>

\* meta.get(key, default); a dict is a function from its keys
Get(meta, key, default) == IF key \in DOMAIN meta THEN meta[key] ELSE default

\* the parts of the item text f"{name} emdash {freq} MHz (P{prog})"
ItemText(name, freq, prog) == <<name, freq, prog>>

\* the item _add_preset() makes
NewItem(name, freq, prog_str) ==
    [text |-> ItemText(name, freq, prog_str),
     meta |-> [name |-> name, freq |-> freq, prog |-> prog_str]]

\* _add_preset(): name_text is self.preset_name_edit.text().strip(),
\* prog_str is str(self._get_current_program_number())
add_preset(s, name_text, prog_str) ==
    IF s.freq_text = "" THEN s
    ELSE [s EXCEPT !.preset_list =
            Append(@, NewItem(IF name_text # "" THEN name_text
                              ELSE s.freq_text \o " MHz P" \o prog_str,
                              s.freq_text, prog_str))]

\* lst without its element number i
Without(lst, i) == SubSeq(lst, 1, i - 1) \o SubSeq(lst, i + 1, Len(lst))

\* lst with x inserted so that it becomes element number i
InsertAt(lst, i, x) == SubSeq(lst, 1, i - 1) \o <<x>> \o SubSeq(lst, i, Len(lst))

\* _remove_selected_preset(): row is self.preset_list.currentRow()
remove_selected_preset(s, row) ==
    IF row >= 0 THEN [s EXCEPT !.preset_list = Without(@, row + 1)] ELSE s

\* _move_preset(direction)
move_preset(s, row, direction) ==
    IF row < 0 THEN s
    ELSE IF row + direction < 0 \/ row + direction >= Len(s.preset_list) THEN s
    ELSE [s EXCEPT !.preset_list =
            InsertAt(Without(@, row + 1), row + direction + 1, @[row + 1])]

\* json.dump(): an array of objects, each a sequence of members <<key,
\* value>> in the order of the keys of the dict
MembersOf(meta) ==
    [i \in 1..Len(SelectSeq(PresetKeys, LAMBDA k : k \in DOMAIN meta)) |->
        <<SelectSeq(PresetKeys, LAMBDA k : k \in DOMAIN meta)[i],
          meta[SelectSeq(PresetKeys, LAMBDA k : k \in DOMAIN meta)[i]]>>]

json_dump(presets) == [i \in DOMAIN presets |-> MembersOf(presets[i])]

\* json.load(): each object becomes a dict; of members with the same key
\* the last one counts
DictOf(members) ==
    [k \in {members[i][1] : i \in DOMAIN members} |->
        members[SetMax({i \in DOMAIN members : members[i][1] = k})][2]]

json_load(doc) == [i \in DOMAIN doc |-> DictOf(doc[i])]

\* the for loop of _import_presets() over data
RECURSIVE ImportedItems(_)
ImportedItems(data) ==
    IF data = <<>> THEN <<>>
    ELSE IF Get(Head(data), "freq", "") = "" THEN ImportedItems(Tail(data))
    ELSE <<[text |-> ItemText(
                       IF Get(Head(data), "name", "") # ""
                       THEN Get(Head(data), "name", "")
                       ELSE Get(Head(data), "freq", "") \o " MHz P"
                              \o Get(Head(data), "prog", "0"),
                       Get(Head(data), "freq", ""), Get(Head(data), "prog", "0")),
            meta |-> Head(data)]>> \o ImportedItems(Tail(data))

\* _import_presets(): filename is what the file dialog returns; open()
\* raises when the file does not exist; the files written by
\* _export_presets() hold a list
import_presets(s, filename) ==
    IF filename = "" THEN s
    ELSE IF ~s.preset_file.exists
    THEN Evt(s, "dialog", "-", "Failed to import presets", "-", TRUE)
    ELSE [Evt(s, "open", "-", "r", "-", FALSE) EXCEPT
            !.preset_list = @ \o ImportedItems(json_load(s.preset_file.doc))]

\* the list presets of _export_presets(); every item holds a dict
MetasOf(items) == [i \in DOMAIN items |-> items[i].meta]

\* _export_presets(): io says whether open() and json.dump() succeed
export_presets(s, filename, io) ==
    IF filename = "" THEN s
    ELSE IF io # "ok"
    THEN Evt(s, "dialog", "-", "Failed to export presets", "-", TRUE)
    ELSE [Evt(s, "open", "-", "w", "-", FALSE) EXCEPT
            !.preset_file = FileWith(json_dump(MetasOf(s.preset_list)))]

(* ---------------- now-playing history ---------------- *)
\* self.max_history_rows
max_history_rows == 500

\* title in ["", "emdash"]
NothingShown(text) == text \in {<<>>, Dash}

\* the row _maybe_add_history_entry() inserts; the time of day in its first
\* column is the number of the row in the session
HistoryRow(s) ==
    [time |-> Len(s.history_pushed) + 1, title |-> strip(s.title_label),
     artist |-> strip(s.artist_label), album |-> strip(s.album_label)]

\* a _maybe_add_history_entry() that compares with nothing
maybe_add_history_entry_no_dedup(s) ==
    IF /\ NothingShown(strip(s.title_label))
       /\ NothingShown(strip(s.artist_label))
       /\ NothingShown(strip(s.album_label))
    THEN s
    ELSE [s EXCEPT !.history_table = LastN(Append(@, HistoryRow(s)), max_history_rows),
                   !.history_pushed = Append(@, HistoryRow(s)),
                   !.last_title = strip(s.title_label),
                   !.last_artist = strip(s.artist_label),
                   !.last_album = strip(s.album_label)]

\* a _maybe_add_history_entry() that removes the newest rows on overflow
maybe_add_history_entry_keeps_oldest(s) ==
    IF /\ NothingShown(strip(s.title_label))
       /\ NothingShown(strip(s.artist_label))
       /\ NothingShown(strip(s.album_label))
    THEN s
    ELSE IF <<strip(s.title_label), strip(s.artist_label), strip(s.album_label)>>
              = <<s.last_title, s.last_artist, s.last_album>>
    THEN s
    ELSE [s EXCEPT !.history_table =
                       SubSeq(Append(@, HistoryRow(s)), 1,
                              IF Len(@) + 1 > max_history_rows
                              THEN max_history_rows ELSE Len(@) + 1),
                   !.history_pushed = Append(@, HistoryRow(s)),
                   !.last_title = strip(s.title_label),
                   !.last_artist = strip(s.artist_label),
                   !.last_album = strip(s.album_label)]

\* _maybe_add_history_entry()
maybe_add_history_entry(s) ==
    IF /\ NothingShown(strip(s.title_label))
       /\ NothingShown(strip(s.artist_label))
       /\ NothingShown(strip(s.album_label))
    THEN s
    ELSE IF <<strip(s.title_label), strip(s.artist_label), strip(s.album_label)>>
              = <<s.last_title, s.last_artist, s.last_album>>
    THEN s
    ELSE [s EXCEPT !.history_table = LastN(Append(@, HistoryRow(s)), max_history_rows),
                   !.history_pushed = Append(@, HistoryRow(s)),
                   !.last_title = strip(s.title_label),
                   !.last_artist = strip(s.artist_label),
                   !.last_album = strip(s.album_label)]

(* ---------------- the receiver's diagnostics ---------------- *)
\* the BER rule: m is self.re_ber.search(line)
ber_rule(s, m) ==
    IF m.ok /\ FloatOf(m.groups[1]).ok
    THEN update_ber_graph(s, FloatOf(m.groups[1]).val * 100)
    ELSE s

\* the Title, Artist and Album rules
title_rule(s, m) ==
    IF m.ok
    THEN [s EXCEPT !.title_label = strip(m.groups[1]), !.metadata_changed = TRUE]
    ELSE s

artist_rule(s, m) ==
    IF m.ok
    THEN [s EXCEPT !.artist_label = strip(m.groups[1]), !.metadata_changed = TRUE]
    ELSE s

album_rule(s, m) ==
    IF m.ok
    THEN [s EXCEPT !.album_label = strip(m.groups[1]), !.metadata_changed = TRUE]
    ELSE s

\* a station rule that stores each number as soon as it is parsed
station_rule_partial(s, m) ==
    IF ~(m.ok /\ FloatOf(m.groups[1]).ok) THEN s
    ELSE IF ~FloatOf(m.groups[2]).ok
    THEN [s EXCEPT !.station_lat = Number(FloatOf(m.groups[1]).val)]
    ELSE IF ~FloatOf(m.groups[3]).ok
    THEN [s EXCEPT !.station_lat = Number(FloatOf(m.groups[1]).val),
                   !.station_lon = Number(FloatOf(m.groups[2]).val)]
    ELSE update_distances(
           [s EXCEPT !.station_lat = Number(FloatOf(m.groups[1]).val),
                     !.station_lon = Number(FloatOf(m.groups[2]).val),
                     !.station_alt = Number(FloatOf(m.groups[3]).val)])

\* the Station location rule
station_rule(s, m) ==
    IF /\ m.ok
       /\ FloatOf(m.groups[1]).ok /\ FloatOf(m.groups[2]).ok
       /\ FloatOf(m.groups[3]).ok
    THEN update_distances(
           [s EXCEPT !.station_lat = Number(FloatOf(m.groups[1]).val),
                     !.station_lon = Number(FloatOf(m.groups[2]).val),
                     !.station_alt = Number(FloatOf(m.groups[3]).val)])
    ELSE s

\* the body of the loop of _parse_metadata_output(), line stripped
parse_line(s, line) ==
    IF line = <<>> THEN s
    ELSE station_rule(
           album_rule(
             artist_rule(
               title_rule(
                 ber_rule(append_log_line(s, line), re_ber(line)),
                 re_title(line)),
               re_artist(line)),
             re_album(line)),
           re_station_loc(line))

\* for line in text.splitlines(): lines is what is left of them
RECURSIVE parse_lines(_, _)
parse_lines(s, lines) ==
    IF lines = <<>> THEN s
    ELSE parse_lines(parse_line(s, strip(Head(lines))), Tail(lines))

\* if metadata_changed: self._maybe_add_history_entry()
history_if_changed(s) ==
    [(IF s.metadata_changed THEN maybe_add_history_entry(s) ELSE s)
        EXCEPT !.metadata_changed = FALSE]

\* a _parse_metadata_output() that does not look at the receiver handle
parse_metadata_output_any_sender(s, text) ==
    history_if_changed(parse_lines([s EXCEPT !.stderr_text = text], text))

\* _parse_metadata_output(): text is the lines of what the receiver wrote
\* to its standard error
parse_metadata_output(s, text) ==
    IF s.proc_nrsc5 = None THEN s
    ELSE history_if_changed(parse_lines([s EXCEPT !.stderr_text = text], text))

(* ---------------- the environment's choices ---------------- *)
AllStarted == [n \in Names |-> "started"]
NoneExits == [n \in Names |-> "timeout"]
OutsNone == [started |-> AllStarted, proc |-> NoneExits]

HandleOf(s, n) ==
    CASE n = "nrsc5" -> s.proc_nrsc5 [] n = "ffplay" -> s.proc_play [] OTHER -> s.proc_rec

\* a stop sequence waits only for the processes the handles refer to, and
\* what such a process does matters only if it is still alive
Awaited(s, n) ==
    /\ HandleOf(s, n).os = "alive"
    /\ n = "ffmpeg" => s.recording

\* the exit of the current receiver that starts the automatic stop
AutoStops(s, r) ==
    /\ s[r].name = "nrsc5" /\ s[r].state = "Running"
    /\ s.radio_running /\ ~s.stopping_radio

\* what the three processes do while a stop sequence waits for them
OutsStop(s) ==
    {[started |-> AllStarted, proc |-> f] :
        f \in {g \in [Names -> FinOutcomes] :
                 \A n \in Names : ~Awaited(s, n) => g[n] = "timeout"}}

\* what player and receiver do while start_stream() waits for them to start
\* and, if it rolls back, to finish: <<player starts, receiver starts,
\* player finishes, receiver finishes>>, the latter two where waited for
StartCases ==
    {<<"started", "started", "timeout", "timeout">>, <<"failed", "started", "timeout", "timeout">>}
    \cup {<<"timeout", "started", f, "timeout">> : f \in RollbackOutcomes}
    \cup {<<"started", "failed", f, "timeout">> : f \in FinOutcomes}
    \cup {<<"started", "timeout", f, g>> : f \in FinOutcomes, g \in RollbackOutcomes}

OutsStart ==
    {[started |-> [AllStarted EXCEPT !["ffplay"] = c[1], !["nrsc5"] = c[2]],
      proc    |-> [NoneExits EXCEPT !["ffplay"] = c[3], !["nrsc5"] = c[4]]] :
        c \in StartCases}

\* what the recorder does while start_recording() waits for it to start
OutsRecStart ==
    {[started |-> [AllStarted EXCEPT !["ffmpeg"] = g], proc |-> NoneExits] :
        g \in StartOutcomes}

\* processes that start when asked and exit as soon as they are told to
PromptExits(s) ==
    [n \in Names |-> IF Awaited(s, n) THEN "NormalExit" ELSE "timeout"]

OutsPrompt(s) ==
    IF s.radio_running THEN [started |-> AllStarted, proc |-> PromptExits(s)]
    ELSE OutsNone

\* the BER figures, in thousandths, the receiver may report after n samples
BerValues(n) == IF n < BerFreeChoices THEN {0, n + 1} ELSE {n + 1}

\* str(n), n >= 0
RECURSIVE ToDigits(_)
ToDigits(n) ==
    IF n < 10 THEN <<DigitChars[n + 1]>>
    ELSE Append(ToDigits(n \div 10), DigitChars[(n % 10) + 1])

\* the diagnostics that report the BER v / 1000: "BER: <v>e-3"
BerText(v) == <<BerLiteral \o <<" ">> \o ToDigits(v) \o <<"e", "-", "3">>>>

\* lines of the receiver's diagnostics
LineBer ==
    <<"B", "E", "R", ":", " ", "0", ".", "0", "1", "5">>
LineBerSigned ==
    <<"B", "E", "R", ":", " ", "-", "0", ".", "5">>
LineBerDots ==
    <<"B", "E", "R", ":", " ", "1", ".", "2", ".", "3">>
LineBerNoNumber ==
    <<"B", "E", "R", ":", " ", "e">>
LineBerLower ==
    <<"b", "e", "r", ":", " ", "0", ".", "1">>
LineSync ==
    <<"S", "y", "n", "c", "h", "r", "o", "n", "i", "z", "e", "d">>
LineBlank ==
    <<" ", " ">>
LineTitleBer ==
    <<"T", "i", "t", "l", "e", ":", " ", "B", "E", "R", ":", " ", "0", ".",
      "5">>
LineTitle ==
    <<"T", "i", "t", "l", "e", ":", " ", "S", "o", "n", "g", " ", "A">>
LineStation ==
    <<"S", "t", "a", "t", "i", "o", "n", " ", "l", "o", "c", "a", "t", "i",
      "o", "n", ":", " ", "3", "5", ".", "9", "0", ",", "-", "9", "5", ".",
      "7", "7", ",", "3", "0", "0", "m">>
LineArtist ==
    <<"A", "r", "t", "i", "s", "t", ":", " ", "B", "a", "n", "d", " ", "B">>
LineTitleB ==
    <<"T", "i", "t", "l", "e", ":", " ", "S", "o", "n", "g", " ", "B">>
LineTitleDash ==
    <<"T", "i", "t", "l", "e", ":", " ", "emdash">>
LineStationHere ==
    <<"S", "t", "a", "t", "i", "o", "n", " ", "l", "o", "c", "a", "t", "i",
      "o", "n", ":", " ", "3", "5", ".", "8", "8", ",", " ", "-", "9", "5",
      ".", "7", "7", ",", " ", "3", "1", "0", "m">>
LineStationAlt ==
    <<"S", "t", "a", "t", "i", "o", "n", " ", "l", "o", "c", "a", "t", "i",
      "o", "n", ":", " ", "3", "5", ".", "9", "0", ",", "-", "9", "5", ".",
      "7", "7", ",", "3", ".", "0", ".", "0", "m">>
LineStationLon ==
    <<"S", "t", "a", "t", "i", "o", "n", " ", "l", "o", "c", "a", "t", "i",
      "o", "n", ":", " ", "1", ".", "5", ",", "-", ",", "2", "m">>

\* the lines a receiver writes in the sessions of SpecPosition
StationLines == {LineStation, LineStationHere, LineStationAlt, LineStationLon}

\* what the user may type into the fields of the user's location
UserLatTexts == {<<>>, <<"3", "5", ".", "8", "8">>, <<"3", "5", ".", "9", "2">>,
                 <<"n", "a", "n">>}
UserLonTexts == {<<>>, <<"-", "9", "5", ".", "7", "7">>,
                 <<"-", "9", "5", ".", "7", "0">>, <<"x">>}
UserAltTexts == {<<>>, <<"3", "0", "0">>, <<" ", "3", "1", "0">>}

\* the lines a receiver writes in the sessions of SpecHistory
SongLines == {LineTitle, LineTitleB, LineArtist, LineTitleDash}

\* a title line that changes the title the labels show
NextTitle(s) ==
    IF s.title_label = re_title(LineTitle).groups[1] THEN LineTitleB ELSE LineTitle

HistoryTexts(s) ==
    IF \/ Len(s.history_pushed) < HistoryFreeChoices
       \/ Len(s.history_pushed) >= max_history_rows
    THEN {<<l>> : l \in SongLines}
    ELSE {<<NextTitle(s)>>}

\* the lines a receiver writes in the sessions of SpecSongs, in this order
SongScript == <<LineTitle, LineArtist, LineTitle, LineArtist>>

\* the lines a receiver writes in the sessions of SpecMeta, and what one
\* read may hold of them
DiagLines ==
    {LineBer, LineBerSigned, LineBerDots, LineBerNoNumber, LineBerLower,
     LineSync, LineBlank, LineTitleBer, LineTitle, LineStation}
DiagTexts ==
    {<<l>> : l \in DiagLines} \cup {<<LineBlank, l>> : l \in DiagLines}

\* what the user may type as the name of a preset, the program numbers the
\* user may have selected, what a file dialog may return, and how writing
\* the file may end
PresetNames == {"", "Jazz"}
ProgNumbers == {"0", "1"}
FileNames == {"", "presets.json"}
WriteOutcomes == {"ok", "OSError"}

\* frequency texts of the stored presets
PresetFreqs == {"106.9", "0"}

(* ---------------- state after construction ---------------- *)
InitCore ==
    /\ radio_running = FALSE
    /\ recording = FALSE
    /\ stopping_radio = FALSE
    /\ proc_nrsc5 = None
    /\ proc_play = None
    /\ proc_rec = None
    /\ orphans = EmptyBag
    /\ record_btn_enabled = FALSE
    /\ record_timer_active = FALSE
    /\ record_start_time = FALSE
    /\ status_text = "Status: Idle"
    /\ closed = FALSE
    /\ nchunks = 0
    /\ ber_history = <<>>
    /\ ber_pushed = <<>>
    /\ log_text = <<>>
    /\ title_label = Dash
    /\ artist_label = Dash
    /\ album_label = Dash
    /\ last_title = NoneText
    /\ last_artist = NoneText
    /\ last_album = NoneText
    /\ history_table = <<>>
    /\ history_pushed = <<>>
    /\ station_lat = NoneNumber
    /\ station_lon = NoneNumber
    /\ station_alt = NoneNumber
    /\ relpos_text = NotAvailable
    /\ vert_text = NotAvailable
    /\ stderr_text = <<>>
    /\ preset_list = <<>>
    /\ preset_file = NoFile
    /\ trace = <<>>

\* no user location in the settings, metric units
InitUser ==
    /\ units_index = 0
    /\ user_lat_edit = <<>>
    /\ user_lon_edit = <<>>
    /\ user_alt_edit = <<>>
    /\ user_lat = NoneNumber
    /\ user_lon = NoneNumber
    /\ user_alt = NoneNumber

Init ==
    /\ InitCore
    /\ InitUser
    /\ freq_text = "106.9"
    /\ host_text = "192.168.0.162"
    /\ port_text = "1234"

\* the settings file may hold any texts for the tuning fields
InitInputs ==
    /\ InitCore
    /\ InitUser
    /\ freq_text \in FreqTexts
    /\ host_text \in HostTexts
    /\ port_text \in PortTexts

\* the settings file may hold any texts for the user's location and either
\* unit system; the constructor parses them with _update_user_location()
InitUserSettings ==
    /\ units_index \in {0, 1}
    /\ user_lat_edit \in UserLatTexts
    /\ user_lon_edit \in UserLonTexts
    /\ user_alt_edit \in UserAltTexts
    /\ user_lat = parse(user_lat_edit)
    /\ user_lon = parse(user_lon_edit)
    /\ user_alt = user_alt_of(parse(user_alt_edit), units_index)

InitPosition ==
    /\ InitCore
    /\ InitUserSettings
    /\ freq_text = "106.9"
    /\ host_text = "192.168.0.162"
    /\ port_text = "1234"

\* the settings file holds the user's location 35.88, -95.77, 300 m
InitLocated ==
    /\ InitPosition
    /\ units_index = 0
    /\ user_lat_edit = <<"3", "5", ".", "8", "8">>
    /\ user_lon_edit = <<"-", "9", "5", ".", "7", "7">>
    /\ user_alt_edit = <<"3", "0", "0">>

(* ---------------- actions ---------------- *)
\* the handler has returned: a sender that has not finished stays with the
\* objects no handle refers to
Commit(t) ==
    LET s == IF t.sender # None /\ t.sender.state # "NotRunning"
             THEN [t EXCEPT !.orphans = @ (+) SetToBag({t.sender})]
             ELSE t
    IN /\ BagCardinality(s.orphans) <= MaxOrphans
       /\ radio_running' = s.radio_running
       /\ recording' = s.recording
       /\ stopping_radio' = s.stopping_radio
       /\ proc_nrsc5' = s.proc_nrsc5
       /\ proc_play' = s.proc_play
       /\ proc_rec' = s.proc_rec
       /\ orphans' = s.orphans
       /\ record_btn_enabled' = s.record_btn_enabled
       /\ record_timer_active' = s.record_timer_active
       /\ record_start_time' = s.record_start_time
       /\ status_text' = s.status_text
       /\ freq_text' = s.freq_text
       /\ host_text' = s.host_text
       /\ port_text' = s.port_text
       /\ closed' = s.closed
       /\ nchunks' = s.nchunks
       /\ ber_history' = s.ber_history
       /\ ber_pushed' = s.ber_pushed
       /\ log_text' = s.log_text
       /\ title_label' = s.title_label
       /\ artist_label' = s.artist_label
       /\ album_label' = s.album_label
       /\ last_title' = s.last_title
       /\ last_artist' = s.last_artist
       /\ last_album' = s.last_album
       /\ history_table' = s.history_table
       /\ history_pushed' = s.history_pushed
       /\ station_lat' = s.station_lat
       /\ station_lon' = s.station_lon
       /\ station_alt' = s.station_alt
       /\ user_lat_edit' = s.user_lat_edit
       /\ user_lon_edit' = s.user_lon_edit
       /\ user_alt_edit' = s.user_alt_edit
       /\ units_index' = s.units_index
       /\ user_lat' = s.user_lat
       /\ user_lon' = s.user_lon
       /\ user_alt' = s.user_alt
       /\ relpos_text' = s.relpos_text
       /\ vert_text' = s.vert_text
       /\ stderr_text' = s.stderr_text
       /\ preset_list' = s.preset_list
       /\ preset_file' = s.preset_file
       /\ trace' = s.trace

\* the objects that can emit a signal: those of the handles, and every
\* object no handle refers to, which becomes the sender
Senders ==
    {[r |-> h, s |-> S] : h \in {x \in HandleNames : S[x] # None}}
    \cup {[r |-> "sender",
           s |-> [S EXCEPT !.sender = o, !.orphans = @ (-) SetToBag({o})]] :
            o \in BagToSet(orphans)}

\* the user clicks the radio button
ToggleRadio ==
    /\ ~closed
    /\ \E out \in (IF radio_running THEN OutsStop(S) ELSE OutsStart) :
          Commit(toggle_radio(S, out))

\* the user tunes to a preset
TunePreset ==
    /\ ~closed
    /\ \E freq \in PresetFreqs :
          \E out1 \in (IF radio_running THEN OutsStop(S) ELSE {OutsNone}),
             out2 \in (IF radio_running
                          /\ validate_start_inputs([S EXCEPT !.freq_text = freq]) = "ok"
                       THEN OutsStart ELSE {OutsNone}) :
             Commit(tune_preset_item(S, freq, out1, out2))

\* the user clicks the record button
ToggleRecording ==
    /\ ~closed
    /\ record_btn_enabled
    /\ \E out \in (IF recording THEN OutsStop(S) ELSE OutsRecStart) :
          Commit(toggle_recording(S, out))

\* the user closes the window
CloseEvent ==
    /\ ~closed
    /\ \E out \in OutsStop(S) : Commit(closeEvent(S, out))

\* a process exits by itself; Qt has not noticed yet
ProcessExits ==
    \E x \in Senders, e \in ExitStatuses :
        /\ x.s[x.r].state = "Running"
        /\ x.s[x.r].os = "alive"
        /\ Commit([x.s EXCEPT ![x.r] =
                      [@ EXCEPT !.os = "dead", !.exit = e,
                                !.cause = CauseOf(x.s[x.r])]])

\* the event loop notices a dead process and emits its signals
DeliverExit ==
    \E x \in Senders :
        /\ x.s[x.r].os = "dead"
        /\ \E out \in (IF AutoStops(x.s, x.r) THEN OutsStop(x.s) ELSE {OutsNone}) :
              Commit(process_died(x.s, x.r, out))

\* the event loop reports an I/O error of a started process
ProcessIOError ==
    \E x \in Senders :
        /\ x.s[x.r].state = "Running"
        /\ Commit(errorOccurred(x.s, x.r, IOErrorOf(x.s[x.r].name)))

\* a process whose start was not awaited to the end starts after all
LateStarted ==
    \E x \in Senders :
        /\ x.s[x.r].state = "Starting"
        /\ x.s[x.r].os = "alive"
        /\ Commit(SetProc(x.s, x.r, "state", "Running"))

\* ... or fails to start
LateFailed ==
    \E x \in Senders :
        /\ x.s[x.r].state = "Starting"
        /\ x.s[x.r].os = "alive"
        /\ Commit(failed_to_start(x.s, x.r))

\* readyReadStandardOutput of a receiver: the handler reads from the
\* current receiver, which has a new chunk or nothing
ReadyReadStandardOutput ==
    \E x \in Senders, data \in {0, nchunks + 1} :
        /\ x.s[x.r].name = "nrsc5"
        /\ x.s[x.r].state = "Running"
        /\ data <= MaxChunks
        /\ data # 0 => IsRunning(proc_nrsc5)
        /\ Commit([distribute_audio_data(x.s, data)
                     EXCEPT !.nchunks = IF data # 0 THEN data ELSE @])

\* readyReadStandardError of a receiver: text is what it wrote
ReadStandardError(texts) ==
    \E x \in Senders : \E text \in texts :
        /\ x.s[x.r].name = "nrsc5"
        /\ Commit(parse_metadata_output(x.s, text))

\* a receiver writes diagnostics of every kind
DiagnosticsRead ==
    /\ Len(log_text) < MaxLogLines
    /\ ReadStandardError(DiagTexts)

\* a receiver writes the lines of SongScript; a read holds the next one or
\* more of them
SongScriptRead ==
    /\ Len(log_text) < Len(SongScript)
    /\ ReadStandardError({SubSeq(SongScript, Len(log_text) + 1, Len(log_text) + k) :
                             k \in 1..(Len(SongScript) - Len(log_text))})

\* the buttons of the presets tab
AddPreset ==
    /\ ~closed
    /\ Len(preset_list) < MaxPresets
    /\ \E name \in PresetNames, prog \in ProgNumbers :
          Commit(add_preset(S, name, prog))

RemoveSelectedPreset ==
    /\ ~closed
    /\ \E row \in -1..(Len(preset_list) - 1) :
          Commit(remove_selected_preset(S, row))

MovePreset ==
    /\ ~closed
    /\ \E row \in -1..(Len(preset_list) - 1), direction \in {-1, 1} :
          Commit(move_preset(S, row, direction))

ExportPresets ==
    /\ ~closed
    /\ \E filename \in FileNames, io \in WriteOutcomes :
          Commit(export_presets(S, filename, io))

ImportPresets ==
    /\ ~closed
    /\ Len(preset_list) + Len(preset_file.doc) <= MaxPresets
    /\ \E filename \in FileNames :
          Commit(import_presets(S, filename))

\* readyReadStandardError of a receiver that reports the station location
StationRead ==
    /\ Len(log_text) < MaxStationLines
    /\ ReadStandardError({<<l>> : l \in StationLines})

\* the texts of the three fields after the user has edited one of them
EditedFields ==
    {<<lat, user_lon_edit, user_alt_edit>> : lat \in UserLatTexts}
    \cup {<<user_lat_edit, lon, user_alt_edit>> : lon \in UserLonTexts}
    \cup {<<user_lat_edit, user_lon_edit, alt>> : alt \in UserAltTexts}

\* editingFinished of one of the fields of the user's location
EditingFinished ==
    /\ ~closed
    /\ \E e \in EditedFields :
          Commit(update_user_location(
              [S EXCEPT !.user_lat_edit = e[1], !.user_lon_edit = e[2],
                        !.user_alt_edit = e[3]]))

\* currentIndexChanged of the units combo box
UnitsChanged ==
    /\ ~closed
    /\ Commit(units_changed(S, 1 - units_index))

\* readyReadStandardError of a receiver that announces songs
HistoryRead ==
    /\ Len(history_pushed) < MaxHistoryAppends
    /\ Len(log_text) < Len(history_pushed) + MaxRepeats
    /\ ReadStandardError(HistoryTexts(S))

\* the user clicks the radio button; the processes start and exit promptly
ToggleRadioPrompt ==
    /\ ~closed
    /\ Commit(toggle_radio(S, OutsPrompt(S)))

\* readyReadStandardError of a receiver that reports BER samples
ReadyReadStandardError ==
    /\ Len(ber_pushed) < MaxBerAppends
    /\ ReadStandardError({BerText(v) : v \in BerValues(Len(ber_pushed))})

\* process lifecycle: the session and what the processes do to it
Next ==
    \/ ToggleRadio
    \/ ToggleRecording
    \/ CloseEvent
    \/ ProcessExits
    \/ DeliverExit
    \/ ProcessIOError
    \/ LateStarted
    \/ LateFailed

Spec == Init /\ [][Next]_vars

\* the data pump: audio chunks arriving in sessions with and without recording
NextPump ==
    \/ ToggleRadio
    \/ ToggleRecording
    \/ ProcessExits
    \/ DeliverExit
    \/ LateStarted
    \/ ReadyReadStandardOutput

SpecPump == Init /\ [][NextPump]_vars

\* what a receiver writes, audio and diagnostics, in sessions that start and
\* stop while receivers of earlier sessions are still there
NextReads ==
    \/ ToggleRadio
    \/ ProcessExits
    \/ DeliverExit
    \/ ReadyReadStandardOutput
    \/ SongScriptRead

SpecReads == Init /\ [][NextReads]_vars

\* re-tuning: sessions that are stopped and restarted in one handler
NextTune ==
    \/ ToggleRadio
    \/ TunePreset
    \/ ToggleRecording
    \/ CloseEvent
    \/ ProcessExits
    \/ DeliverExit

SpecTune == Init /\ [][NextTune]_vars

\* start attempts from every content of the tuning fields
NextInputs ==
    \/ ToggleRadio
    \/ ProcessExits
    \/ DeliverExit

SpecInputs == InitInputs /\ [][NextInputs]_vars

\* the BER graph: sessions whose receiver reports BER samples
NextBer ==
    \/ ToggleRadio
    \/ ReadyReadStandardError

SpecBer == Init /\ [][NextBer]_vars

\* the diagnostics: sessions whose receiver writes lines of every kind
NextMeta ==
    \/ ToggleRadio
    \/ DiagnosticsRead

SpecMeta == Init /\ [][NextMeta]_vars

\* a song announced twice: sessions whose receiver writes SongScript
NextSongs ==
    \/ ToggleRadio
    \/ SongScriptRead

SpecSongs == Init /\ [][NextSongs]_vars

\* the now-playing history: long sessions of a receiver that announces songs
NextHistory ==
    \/ ToggleRadioPrompt
    \/ HistoryRead

SpecHistory == Init /\ [][NextHistory]_vars

\* the position: the user's location, the units and the station location
NextPosition ==
    \/ ToggleRadioPrompt
    \/ EditingFinished
    \/ UnitsChanged
    \/ StationRead

SpecPosition == InitPosition /\ [][NextPosition]_vars

\* the presets tab
NextPresets ==
    \/ AddPreset
    \/ RemoveSelectedPreset
    \/ MovePreset
    \/ ExportPresets
    \/ ImportPresets

SpecPresets == Init /\ [][NextPresets]_vars

\* sessions of a located user whose receiver writes lines of every kind
SpecSessions == InitLocated /\ [][NextMeta]_vars

(* ---------------- reading the trace ---------------- *)
\* the exit and error notifications handled by the last handler
Notifications == {i \in DOMAIN trace : trace[i].ev \in {"error", "finished"}}

\* the terminate and kill signals it sent
Signals == {i \in DOMAIN trace : trace[i].ev \in {"terminate", "kill"}}

\* notifications that say the process was killed or crashed
IsCrash(e) ==
    \/ e.ev = "error" /\ e.arg = "Crashed"
    \/ e.ev = "finished" /\ e.arg = "CrashExit"

(* ---------------- C1 ---------------- *)
\* C1 as stated: while stopping_radio is set, every exit and every error
\* notification is reported as 'terminated (user stop)' and nothing is shown
\* to the user, whatever the exit status and the error kind.
C1_AllBenignWhileStopping ==
    \A i \in Notifications :
        trace[i].flag =>
            trace[i].report = "terminated (user stop)" /\ ~trace[i].visible

\* C1 amended: while stopping_radio is set, a crash exit and a Crashed error
\* are reported as 'terminated (user stop)' and show nothing; a normal exit
\* is logged as an ordinary 'finished ... normal' line and shows nothing; an
\* error of any other kind is logged as an error and, for the receiver, sets
\* the error status text and shows the warning dialog.
C1_CrashBenignWhileStopping ==
    \A i \in Notifications :
        trace[i].flag =>
            /\ IsCrash(trace[i]) =>
                  trace[i].report = "terminated (user stop)" /\ ~trace[i].visible
            /\ trace[i].ev = "finished" /\ trace[i].arg = "NormalExit" =>
                  trace[i].report = "finished normal" /\ ~trace[i].visible
            /\ trace[i].ev = "error" /\ trace[i].arg # "Crashed" =>
                  /\ trace[i].report = "error"
                  /\ trace[i].visible <=> trace[i].name = "nrsc5"
                  /\ trace[i].visible => status_text = "Status: nrsc5 error"

\* a stop in which the receiver and the player are killed by the terminate
\* signal and the notifications arrive while the flag is set
C1_Witness ==
    /\ \E i \in Notifications :
          trace[i].flag /\ trace[i].name = "nrsc5" /\ trace[i].ev = "error"
          /\ trace[i].arg = "Crashed"
    /\ \E i \in Notifications :
          trace[i].flag /\ trace[i].name = "ffplay" /\ trace[i].ev = "finished"
          /\ trace[i].arg = "CrashExit"

(* ---------------- C2 ---------------- *)
\* C2: whenever the orchestrator sends terminate or kill to the receiver or
\* the player, stopping_radio is already true.
C2_FlagSetBeforeSignal ==
    \A i \in Signals :
        trace[i].name \in {"nrsc5", "ffplay"} => trace[i].flag

(* ---------------- C3 ---------------- *)
\* C3: a notification of a process that the orchestrator signalled (or whose
\* input it closed) while stopping_radio was set is handled while the flag is
\* still set: the flag is cleared only after the notifications the stop
\* causes.
C3_FlagOutlivesNotifications ==
    \A i \in Notifications :
        trace[i].cause = "stop" /\ trace[i].sigflag => trace[i].flag

(* ---------------- C4 ---------------- *)
\* C4: when the receiver exits abnormally by itself in a running session and
\* the user asks to stop, in either order, one stop sequence runs on the
\* running session and the receiver's exit is not reported as
\* 'terminated (user stop)'.
C4_RaceClassifiedUnexpected ==
    /\ Cardinality({i \in DOMAIN trace : trace[i].ev = "stop_begin" /\ trace[i].run}) <= 1
    /\ \A i \in Notifications :
          trace[i].name = "nrsc5" /\ trace[i].cause = "own" /\ IsCrash(trace[i]) =>
              trace[i].report # "terminated (user stop)"

(* ---------------- C5 ---------------- *)
\* the handler whose events are tr handled the exit of the current
\* receiver, which exited by itself, in a running session with the flag clear
ReceiverExitedByItself(tr) ==
    \E i \in DOMAIN tr :
        /\ tr[i].ev = "finished" /\ tr[i].ref = "proc_nrsc5"
        /\ tr[i].cause = "own" /\ tr[i].run /\ ~tr[i].flag

Sent(tr, ev, r) == \E i \in DOMAIN tr : tr[i].ev = ev /\ tr[i].ref = r

StopsRun(tr) == Cardinality({i \in DOMAIN tr : tr[i].ev = "stop_begin"})

\* C5: handling the exit of the receiver of a running session, flag clear,
\* runs one full stop: afterwards the session is Idle, Recording is Off, a
\* running recorder of an active recording had its input closed, a running
\* player was sent terminate, and the three handles are cleared.
C5_AutomaticFullStop ==
    [][ReceiverExitedByItself(trace') =>
          /\ StopsRun(trace') = 1
          /\ ~radio_running' /\ ~recording'
          /\ recording /\ IsRunning(proc_rec) => Sent(trace', "closeWrite", "proc_rec")
          /\ IsRunning(proc_play) => Sent(trace', "terminate", "proc_play")
          /\ proc_nrsc5' = None /\ proc_play' = None /\ proc_rec' = None]_vars

(* ---------------- C6 ---------------- *)
\* C6: no stop sequence begins inside another one, whatever notification
\* arrives while it runs; and a stop of a session that is already stopped
\* (closing the window while Idle) signals no process.
C6_StopNeverNested ==
    [][/\ \A i \in DOMAIN trace' :
             trace'[i].ev = "stop_begin" => trace'[i].depth = 1
       /\ ~closed /\ closed' /\ ~radio_running =>
             \A i \in DOMAIN trace' :
                 trace'[i].ev \notin {"terminate", "kill", "closeWrite"}]_vars

(* ---------------- C7 ---------------- *)
\* C7: between handlers, Recording On implies the session is Running.
C7_RecordingImpliesRunning == recording => radio_running

\* a stop sequence that found Recording On has run
C7_Witness ==
    /\ ~recording /\ ~radio_running
    /\ \E i \in DOMAIN trace : trace[i].ev = "stop_begin" /\ trace[i].rec /\ trace[i].run

(* ---------------- C8 ---------------- *)
\* position of a process in the teardown order of stop_stream()
TeardownRank(n) == CASE n = "ffmpeg" -> 1 [] n = "nrsc5" -> 2 [] OTHER -> 3

TeardownSteps ==
    {i \in DOMAIN trace :
        /\ trace[i].depth >= 1
        /\ trace[i].ev \in {"closeWrite", "terminate", "kill", "error", "finished"}}

SameStop(i, j) ==
    \A k \in i..j : trace[k].ev \notin {"stop_begin", "stop_end"}

\* C8: within every stop sequence the recorder's steps come first, then the
\* receiver's (signals and the notifications its wait delivers), then the
\* player's; the receiver and the player are signalled with Recording
\* already Off, and Recording is Off when the sequence ends.
C8_TeardownOrder ==
    /\ \A i, j \in TeardownSteps :
          i < j /\ SameStop(i, j) =>
              TeardownRank(trace[i].name) <= TeardownRank(trace[j].name)
    /\ \A i \in TeardownSteps :
          trace[i].name \in {"nrsc5", "ffplay"} => ~trace[i].rec
    /\ \A i \in DOMAIN trace : trace[i].ev = "stop_end" => ~trace[i].rec

\* a stop of a recording session in which all three processes are signalled
C8_Witness ==
    \E i, j, k \in TeardownSteps :
        /\ i < j /\ j < k /\ SameStop(i, k)
        /\ trace[i].ev = "closeWrite" /\ trace[i].name = "ffmpeg"
        /\ trace[j].ev = "kill" /\ trace[j].name = "nrsc5"
        /\ trace[k].ev = "terminate" /\ trace[k].name = "ffplay"

(* ---------------- C9 ---------------- *)
\* the chunks form a strictly increasing sequence: arrival order, no chunk twice
InArrivalOrder(q) == \A i, j \in DOMAIN q : i < j => q[i] < q[j]

\* what a consumer has received once chunk c has been handled
Fed(pr, eligible, c) ==
    IF eligible THEN [pr EXCEPT !.stdin = Append(@, c)] ELSE pr

\* C9: when a non-empty chunk is read from the receiver, it is written
\* unchanged and once to the player iff the player is running, and once to
\* the recorder iff Recording is On and the recorder is running, each
\* whatever the state of the other; a handler that reads no chunk writes
\* nothing; so each consumer holds, in arrival order and without
\* repetition, the chunks that arrived while it was eligible.
C9_ChunkForwarding ==
    [][/\ nchunks' # nchunks =>
             /\ proc_play' = Fed(proc_play, IsRunning(proc_play), nchunks')
             /\ proc_rec' = Fed(proc_rec, recording /\ IsRunning(proc_rec), nchunks')
             /\ Cardinality({i \in DOMAIN trace' : trace'[i].ev = "write"})
                   = (IF IsRunning(proc_play) THEN 1 ELSE 0)
                     + (IF recording /\ IsRunning(proc_rec) THEN 1 ELSE 0)
       /\ nchunks' = nchunks =>
             \A i \in DOMAIN trace' : trace'[i].ev # "write"
       /\ \A h \in {proc_play', proc_rec'} : InArrivalOrder(h.stdin)]_vars

\* the first chunk arrived before the recording began, the second during it
C9_Witness ==
    /\ recording
    /\ proc_play.stdin = <<1, 2>>
    /\ proc_rec.stdin = <<2>>

(* ---------------- C10 ---------------- *)
\* the texts of FreqTexts that denote a number greater than zero
PositiveNumberTexts == {"106.9"}
\* the texts of PortTexts that denote an integer in 1..65535
PortInRangeTexts == {"1234"}

\* the tuning fields hold what C10 calls invalid input
InvalidInputs ==
    \/ freq_text \notin PositiveNumberTexts
    \/ host_text # "" /\ port_text \notin PortInRangeTexts

\* C10: with a frequency that is not a number greater than zero, or with a
\* host and a port that is empty, not an integer or outside 1..65535, a
\* start spawns no process: no handle is created and the session stays Idle.
C10_InvalidInputsSpawnNothing ==
    InvalidInputs =>
        /\ ~radio_running
        /\ proc_play = None /\ proc_nrsc5 = None /\ orphans = EmptyBag
        /\ \A i \in DOMAIN trace : trace[i].ev # "spawn"

(* ---------------- C11 ---------------- *)
\* the last handler showed the warning msg
Warned(msg) == \E i \in DOMAIN trace : trace[i].ev = "dialog" /\ trace[i].arg = msg

\* C11: a receiver is spawned only right after the player, spawned just
\* before it, has reported started; when the player does not start, nothing
\* is spawned afterwards in that attempt, the session is Idle and no player
\* (and no receiver) handle is held.
C11_PlayerBeforeReceiver ==
    /\ \A j \in DOMAIN trace :
          trace[j].ev = "spawn" /\ trace[j].name = "nrsc5" =>
              /\ j > 2
              /\ trace[j - 1].ev = "started" /\ trace[j - 1].name = "ffplay"
              /\ trace[j - 2].ev = "spawn" /\ trace[j - 2].name = "ffplay"
    /\ \A i \in DOMAIN trace :
          trace[i].ev = "dialog" /\ trace[i].arg = "Failed to start ffplay." =>
              /\ \A j \in DOMAIN trace : j > i => trace[j].ev # "spawn"
              /\ ~radio_running /\ proc_play = None /\ proc_nrsc5 = None

\* a start attempt in which the player was spawned and did not start
C11_Witness ==
    /\ Warned("Failed to start ffplay.")
    /\ \E i \in DOMAIN trace : trace[i].ev = "spawn" /\ trace[i].name = "ffplay"

(* ---------------- C12 ---------------- *)
\* the handler sent ev to the process of handle r after step i
SentAfter(i, ev, r) ==
    \E j \in DOMAIN trace : j > i /\ trace[j].ev = ev /\ trace[j].ref = r

\* the receiver spawned in the last handler reported that it failed to start
\* (its object is NotRunning); otherwise its start timed out (Starting)
ReceiverFailedToStart ==
    \E j \in DOMAIN trace :
        /\ trace[j].ev = "error" /\ trace[j].ref = "proc_nrsc5"
        /\ trace[j].arg = "FailedToStart" /\ trace[j].depth = 0

\* C12: when the receiver does not start within the timeout, the started
\* player is sent terminate, the receiver object is sent terminate iff it is
\* not NotRunning, both handles are cleared, the session is Idle, and
\* radio_running is false at every step from the spawn of the player on.
C12_StartRolledBack ==
    \A i \in DOMAIN trace :
        trace[i].ev = "dialog" /\ trace[i].arg = "Failed to start nrsc5." =>
            /\ SentAfter(i, "terminate", "proc_play")
            /\ SentAfter(i, "terminate", "proc_nrsc5") <=> ~ReceiverFailedToStart
            /\ proc_play = None /\ proc_nrsc5 = None
            /\ ~radio_running /\ status_text = "Status: Idle"
            /\ \A k, j \in DOMAIN trace :
                  trace[k].ev = "spawn" /\ trace[k].name = "ffplay" /\ j >= k =>
                      ~trace[j].run

\* the receiver's start timed out and the receiver was sent terminate
C12_Witness ==
    /\ Warned("Failed to start nrsc5.")
    /\ ~ReceiverFailedToStart
    /\ \E j \in DOMAIN trace : trace[j].ev = "terminate" /\ trace[j].name = "nrsc5"

(* ---------------- C13 ---------------- *)
\* C13: from closeEvent on, stopping_radio is true: it is true at every step
\* of the shutdown handler (so before any signal it sends) and of every
\* handler after it, and every crash exit or Crashed error handled then is
\* reported as 'terminated (user stop)' with nothing shown.
C13_ShutdownFlagStays ==
    closed =>
        /\ stopping_radio
        /\ \A i \in DOMAIN trace :
              /\ trace[i].flag
              /\ IsCrash(trace[i]) =>
                    trace[i].report = "terminated (user stop)" /\ ~trace[i].visible

\* a process killed by the shutdown reports its exit after closeEvent
C13_Witness ==
    /\ closed
    /\ \E i \in Notifications :
          /\ IsCrash(trace[i]) /\ trace[i].ref = "sender"
          /\ trace[i].cause = "stop" /\ trace[i].sigflag

(* ---------------- C14 ---------------- *)
\* C14: no QProcess object whose handle has been dropped is behind a process
\* that is still alive and was sent nothing stronger than terminate(): by
\* the time the handle is dropped the process has exited or has been killed.
C14_DroppedProcessGone ==
    \A o \in BagToSet(orphans) :
        (o.sig = "term" \/ ~o.wopen) => o.os # "alive"

(* ---------------- C15 ---------------- *)
\* the recorder reports, during the wait, that it is gone
RecorderGone(e) == e.ev \in {"error", "finished"} /\ e.ref = "proc_rec"

\* C15: in every handler, closing the recorder's input is followed at once
\* either by the recorder's exit, noticed during the bounded wait, or by
\* terminate() to the recorder; terminate() is sent to the recorder only
\* straight after its input was closed and the wait brought nothing; and a
\* chunk is written to the recorder only while its input channel is open,
\* none after closeWriteChannel() in the same handler.
C15_RecorderStopOrder ==
    [][/\ \A i \in DOMAIN trace' :
            /\ trace'[i].ev = "closeWrite" =>
                  /\ trace'[i].ref = "proc_rec"
                  /\ i < Len(trace')
                  /\ \/ RecorderGone(trace'[i + 1])
                     \/ trace'[i + 1].ev = "terminate" /\ trace'[i + 1].ref = "proc_rec"
                  /\ \A j \in DOMAIN trace' :
                        j > i => ~(trace'[j].ev = "write" /\ trace'[j].name = "ffmpeg")
            /\ (trace'[i].ev = "terminate" /\ trace'[i].ref = "proc_rec") =>
                  i > 1 /\ trace'[i - 1].ev = "closeWrite"
            /\ (trace'[i].ev = "write" /\ trace'[i].ref = "proc_rec") =>
                  proc_rec.wopen /\ proc_rec'.wopen
       /\ proc_rec' # None => proc_rec'.wopen]_vars

\* a recorder that was fed is stopped and has to be terminated
C15_Witness ==
    /\ nchunks > 0
    /\ \E i \in DOMAIN trace :
          /\ trace[i].ev = "terminate" /\ trace[i].ref = "proc_rec" /\ trace[i].rec

(* ---------------- C16 ---------------- *)
\* what the recorder does while stop_recording() waits for it
OutsRecStop ==
    {[started |-> AllStarted, proc |-> [NoneExits EXCEPT !["ffmpeg"] = f]] :
        f \in FinOutcomes}

\* C16: in every reachable state with recording off, stop_recording() returns
\* the state it was given: no variable changes and the handler's trace stays
\* empty (no signal, no dialog, no report); and in every reachable state a
\* second stop_recording() straight after the first changes nothing more.
C16_StopRecordingNoOp ==
    \A o1 \in OutsRecStop :
        /\ ~recording => stop_recording(S, o1) = S
        /\ \A o2 \in OutsRecStop :
              stop_recording(stop_recording(S, o1), o2) = stop_recording(S, o1)

\* stop_stream() has called stop_recording() with recording off, while a
\* recorder object is still referred to by proc_rec
C16_Witness ==
    /\ ~recording /\ proc_rec # None
    /\ \E i \in DOMAIN trace :
          /\ trace[i].ev = "stop_begin" /\ ~trace[i].rec
          /\ i < Len(trace) /\ trace[i + 1].ref # "proc_rec"

(* ---------------- C17 ---------------- *)
SpawnsRecorder(tr) ==
    \E i \in DOMAIN tr : tr[i].ev = "spawn" /\ tr[i].name = "ffmpeg"

\* C17: every recorder is spawned with radio_running true and recording
\* false; in a reachable state with the radio not running start_recording()
\* returns the state it was given; and in a reachable state with recording on
\* a press of the record button spawns no recorder.
C17_RecorderSpawnGuard ==
    /\ \A i \in DOMAIN trace :
          (trace[i].ev = "spawn" /\ trace[i].name = "ffmpeg") =>
              trace[i].run /\ ~trace[i].rec
    /\ ~radio_running =>
          \A out \in OutsRecStart : start_recording(S, out) = S
    /\ recording =>
          \A out \in OutsRecStop : ~SpawnsRecorder(toggle_recording(S, out).trace)

\* a recording is on, started by the handler that ran last
C17_Witness == recording /\ radio_running /\ SpawnsRecorder(trace)

(* ---------------- C18 ---------------- *)
\* C18: between handlers, recording off implies that proc_rec is None.
C18_HandleOnlyWhileRecording == ~recording => proc_rec = None

(* ---------------- C19 ---------------- *)
\* where the first stop sequence of a handler ends
FirstStopEnd(tr) ==
    CHOOSE i \in DOMAIN tr :
        tr[i].ev = "stop_end" /\ \A j \in 1..(i - 1) : tr[j].ev # "stop_end"

\* a process is alive behind a handle or behind an object no handle refers to
LeftRunning(t) ==
    \/ \E h \in HandleNames : t[h].os = "alive"
    \/ \E o \in BagToSet(t.orphans) : o.os = "alive"

SpawnsOf(tr, n) == {i \in DOMAIN tr : tr[i].ev = "spawn" /\ tr[i].name = n}

\* what _tune_preset_item() is to have done when it turns s into t
RetuneContract(s, freq, t) ==
    IF ~s.radio_running
    THEN t = [s EXCEPT !.freq_text = freq]
    ELSE /\ t.trace # <<>> /\ t.trace[1].ev = "stop_begin"
         /\ \E i \in DOMAIN t.trace : t.trace[i].ev = "stop_end"
         /\ \A i \in 1..FirstStopEnd(t.trace) :
               /\ t.trace[i].flag
               /\ t.trace[i].ev = "stop_begin" => i = 1
         /\ FirstStopEnd(t.trace) < Len(t.trace)
         /\ \A i \in SpawnsOf(t.trace, "ffplay") \cup SpawnsOf(t.trace, "nrsc5") :
               i > FirstStopEnd(t.trace)
         /\ Cardinality(SpawnsOf(t.trace, "ffplay")) <= 1
         /\ Cardinality(SpawnsOf(t.trace, "nrsc5")) <= 1
         /\ t.freq_text = freq
         /\ \/ /\ t.radio_running
               /\ IsRunning(t.proc_nrsc5) /\ IsRunning(t.proc_play)
            \/ /\ ~t.radio_running
               /\ t.proc_nrsc5 = None /\ t.proc_play = None
               /\ ~LeftRunning(t)

\* C19: in every reachable state and whatever the processes do, a re-tune to
\* a preset while the radio runs is one stop sequence, every step of it with
\* stopping_radio true, then one start attempt on the preset's frequency
\* (at most one player and one receiver spawned, after the stop), and it ends
\* with the radio running on that frequency or not running with no process
\* left alive; while the radio does not run it only sets the frequency field.
C19_RetuneStopsThenStarts ==
    \A freq \in PresetFreqs :
      \A out1 \in (IF radio_running THEN OutsStop(S) ELSE {OutsNone}),
         out2 \in (IF radio_running
                      /\ validate_start_inputs([S EXCEPT !.freq_text = freq]) = "ok"
                   THEN OutsStart ELSE {OutsNone}) :
        RetuneContract(S, freq, tune_preset_item(S, freq, out1, out2))

(* ---------------- C20 ---------------- *)
\* C20: the BER history has at most 300 entries and is the last
\* min(n, 300) of the n values appended in the session, in the order in
\* which they were appended.
C20_BerHistoryBounded ==
    /\ Len(ber_history) <= 300
    /\ LET n == Len(ber_pushed)
           m == IF n < 300 THEN n ELSE 300
       IN /\ Len(ber_history) = m
          /\ \A i \in 1..m : ber_history[i] = ber_pushed[n - m + i]

\* more than 300 samples were appended in one session
C20_Witness == Len(ber_pushed) > 300 /\ ber_history # <<>>

(* ---------------- C21 ---------------- *)
\* the handler that ran last read diagnostics
ReadStep == stderr_text' # <<>>

\* BER lines whose number text is not a number
MalformedBerLines == {LineBerDots, LineBerNoNumber}

\* C21: no BER sample is negative, whatever lines the receiver writes; and
\* a read of one BER line whose number text is malformed adds no sample
\* and logs the line.
C21_BerNeverNegative ==
    [][/\ \A i \in DOMAIN ber_history' : ber_history'[i] >= 0
       /\ (ReadStep /\ \E l \in MalformedBerLines : stderr_text' = <<l>>) =>
             /\ ber_pushed' = ber_pushed
             /\ log_text' = Append(log_text, stderr_text'[1])]_vars

(* ---------------- C22 ---------------- *)
\* non-blank lines that match none of the five patterns
UnrecognisedLines == {LineSync, LineBerLower}

\* what is derived from the diagnostics
Derived ==
    <<ber_history, title_label, artist_label, album_label, history_table,
      last_title, last_artist, last_album, station_lat, station_lon,
      station_alt, relpos_text, vert_text>>

\* C22: a read of one non-blank line that matches no pattern appends that
\* line, stripped, to the log and changes nothing derived; a blank line
\* read with it, or alone, adds nothing to the log.
C22_UnrecognisedOnlyLogged ==
    [][/\ (ReadStep /\ \E l \in UnrecognisedLines :
                         stderr_text' \in {<<l>>, <<LineBlank, l>>}) =>
             /\ log_text' = Append(log_text, strip(stderr_text'[Len(stderr_text')]))
             /\ Derived' = Derived
       /\ (ReadStep /\ stderr_text' = <<LineBlank>>) =>
             /\ log_text' = log_text
             /\ Derived' = Derived]_vars

\* an unrecognised line has been read in a session that has a title, a BER
\* sample or a station
C22_Witness ==
    /\ \E l \in UnrecognisedLines : stderr_text = <<l>>
    /\ Len(log_text) = 2
    /\ title_label # Dash \/ ber_history # <<>> \/ station_lat.known

(* ---------------- C23 ---------------- *)
\* C23: once the receiver of a fresh session has written 'Title: Song A',
\* 'Artist: Band B' and the same two lines again, in whatever reads, the
\* session has appended exactly one history row.
C23_OneEntryForRepeatedSong ==
    log_text = SongScript => Len(history_pushed) = 1

(* ---------------- C24 ---------------- *)
Triple(row) == <<row.title, row.artist, row.album>>

AllUnknown(row) ==
    /\ NothingShown(row.title)
    /\ NothingShown(row.artist)
    /\ NothingShown(row.album)

NewestRow == history_pushed'[Len(history_pushed')]

\* C24: after every step no two neighbouring rows of the history table have
\* the same (title, artist, album); and a read that appends a row appends
\* exactly one, holding the triple the labels show after the read, which is
\* not all unknown and differs from the triple of the last row the table
\* held before the read. The sessions of SpecHistory fill the table beyond
\* its capacity and are stopped and started again at any point.
C24_NoAdjacentRepeats ==
    [][/\ \A i \in 1..(Len(history_table') - 1) :
             Triple(history_table'[i]) # Triple(history_table'[i + 1])
       /\ (ReadStep /\ history_pushed' # history_pushed) =>
             /\ history_pushed' = Append(history_pushed, NewestRow)
             /\ history_table'[Len(history_table')] = NewestRow
             /\ Triple(NewestRow) = <<title_label', artist_label', album_label'>>
             /\ ~AllUnknown(NewestRow)
             /\ history_table # <<>> =>
                   Triple(NewestRow) # Triple(history_table[Len(history_table)])]_vars

\* a table filled beyond its capacity, in a session that has read lines that
\* added no row, after a read that leaves the labels showing the last row
C24_Witness ==
    /\ Len(history_pushed) > max_history_rows
    /\ Len(log_text) > Len(history_pushed)
    /\ stderr_text \in {<<LineTitle>>, <<LineTitleB>>, <<LineArtist>>}
    /\ Triple(history_table[max_history_rows])
          = <<title_label, artist_label, album_label>>

(* ---------------- C25 ---------------- *)
\* C25: the history table never holds more than 500 rows, and always holds
\* the newest rows the session appended, at most 500 of them, in the order
\* and with the content they were appended with.
C25_HistoryBounded ==
    /\ Len(history_table) <= 500
    /\ history_table = LastN(history_pushed, 500)

\* a session that has appended more rows than the table holds
C25_Witness ==
    /\ Len(history_pushed) > 500
    /\ Len(history_table) = 500

(* ---------------- C26 ---------------- *)
Coordinates == <<station_lat, station_lon, station_alt, user_lat, user_lon, user_alt>>

\* C26: in every reachable state the relative position and the vertical
\* offset are both 'N/A' if one of the six coordinates is None, and neither
\* is 'N/A' if none is.
C26_NotAvailableIffUnknown ==
    IF \E i \in 1..6 : ~Coordinates[i].known
    THEN relpos_text = NotAvailable /\ vert_text = NotAvailable
    ELSE relpos_text # NotAvailable /\ vert_text # NotAvailable

(* ---------------- C27 ---------------- *)
\* the points the lines of StationLines give, in thousandths: latitude,
\* longitude, altitude
PointOf(line) ==
    CASE line = LineStation -> <<35900, -95770, 300000>>
      [] line = LineStationHere -> <<35880, -95770, 310000>>
      [] OTHER -> <<>>

StationPoint == <<station_lat, station_lon, station_alt>>

\* C27: after every step the three fields of the station point are all None
\* or are the three numbers of one 'Station location' line in the log of the
\* session; and a read of a 'Station location' line one of whose numbers is
\* no number leaves the station point, the relative position and the
\* vertical offset as they were.
C27_StationPointAtomic ==
    [][/\ \/ \A i \in 1..3 : StationPoint'[i] = NoneNumber
          \/ \E k \in DOMAIN log_text' :
                /\ PointOf(log_text'[k]) # <<>>
                /\ \A i \in 1..3 : StationPoint'[i] = Number(PointOf(log_text'[k])[i])
       /\ (ReadStep /\ stderr_text' \in {<<LineStationAlt>>, <<LineStationLon>>}) =>
             /\ StationPoint' = StationPoint
             /\ relpos_text' = relpos_text
             /\ vert_text' = vert_text]_vars

\* a line whose altitude is no number has been read while a station point and
\* a computed position were there
C27_Witness ==
    /\ stderr_text = <<LineStationAlt>>
    /\ StationPoint = <<Number(35880), Number(-95770), Number(310000)>>
    /\ relpos_text.kind = "0 (here)"
    /\ vert_text.kind = "above"

(* ---------------- C28 ---------------- *)
\* what the five updates change: the BER samples, title, artist, album and
\* the station point
FivePieces ==
    <<ber_pushed, title_label, artist_label, album_label,
      <<station_lat, station_lon, station_alt>>>>

\* C28: a read that holds one line with text changes at most one of the BER
\* samples, the title, the artist, the album and the station point. (Every
\* read of SpecMeta holds one such line, or a blank line only.)
C28_OneUpdatePerLine ==
    [][ReadStep =>
         Cardinality({i \in 1..5 : FivePieces'[i] # FivePieces[i]}) <= 1]_vars

(* ---------------- C29 ---------------- *)
Labels == <<"North", "Northeast", "East", "Southeast",
            "South", "Southwest", "West", "Northwest">>

\* label number j mod 8 is selected for bearing b when
\* 45 j <= b + 22.5 < 45 (j + 1)
Selected(b, label) ==
    \E j \in 0..8 :
        /\ 90 * j <= 2 * b + 45
        /\ 2 * b + 45 < 90 * (j + 1)
        /\ label = Labels[(j % 8) + 1]

\* all six coordinates are numbers
AllNumbers == \A i \in 1..6 : Coordinates[i].known /\ ~Coordinates[i].nan

\* how far the station lies to the east and to the north of the user, in
\* thousandths of a degree of longitude and of latitude
East == station_lon.val - user_lon.val
North == station_lat.val - user_lat.val

\* C29: _bearing_to_cardinal() gives every whole-degree bearing in [0, 360)
\* the label that floor((bearing + 22.5) / 45) mod 8 selects; whenever a
\* relative position has been computed from six numbers, its label is the
\* one selected for its bearing, and the bearing runs clockwise from north
\* (0 due north, 90 due east, 180 due south, 270 due west, and in the
\* quadrant the offsets to the east and to the north give); and with the
\* station at (35.90, -95.77, 300) and the user at (35.88, -95.77, 300) the
\* label is North and the vertical offset is 0.
C29_DirectionLabel ==
    /\ \A b \in 0..359 : Selected(b, bearing_to_cardinal(b))
    /\ (AllNumbers /\ relpos_text.kind = "away") =>
          /\ Selected(relpos_text.bearing, relpos_text.cardinal)
          /\ East >= 0 => relpos_text.bearing \in 0..180
          /\ East <= 0 => relpos_text.bearing \in {0} \cup 180..359
          /\ North >= 0 => relpos_text.bearing \in (0..90) \cup (270..359)
          /\ North <= 0 => relpos_text.bearing \in 90..270
    /\ (/\ StationPoint = <<Number(35900), Number(-95770), Number(300000)>>
        /\ <<user_lat, user_lon, user_alt>>
              = <<Number(35880), Number(-95770), Number(300000)>>) =>
          /\ relpos_text.kind = "away"
          /\ relpos_text.cardinal = "North"
          /\ relpos_text.bearing = 0
          /\ vert_text.kind = "0"

\* the position has been computed for the station at (35.90, -95.77, 300) and
\* the user at (35.88, -95.77, 300)
C29_Witness ==
    /\ StationPoint = <<Number(35900), Number(-95770), Number(300000)>>
    /\ <<user_lat, user_lon, user_alt>>
          = <<Number(35880), Number(-95770), Number(300000)>>
    /\ relpos_text.cardinal = "North"

(* ---------------- C30 ---------------- *)
\* the file holds the records of the items of the list, in their order
FileHoldsList ==
    /\ preset_file.exists
    /\ Len(preset_file.doc) = Len(preset_list)
    /\ \A i \in DOMAIN preset_list :
          preset_file.doc[i] = <<<<"name", preset_list[i].meta.name>>,
                                 <<"freq", preset_list[i].meta.freq>>,
                                 <<"prog", preset_list[i].meta.prog>>>>

\* the handler that ran has opened the file for reading
ImportStep == \E i \in DOMAIN trace' : trace'[i].ev = "open" /\ trace'[i].arg = "r"

\* C30: an import from the file that holds what an export of the list wrote
\* leaves a list of the same length with the same {name, freq, prog} records
\* in the same order.
C30_ExportImportRoundTrip ==
    [][(FileHoldsList /\ ImportStep) =>
          /\ Len(preset_list') = Len(preset_list)
          /\ \A i \in DOMAIN preset_list :
                preset_list'[i].meta = preset_list[i].meta]_vars

(* ---------------- C31 ---------------- *)
\* the handler that ran handled notifications of consumers and nothing else
ConsumerNotified(tr) ==
    /\ tr # <<>>
    /\ \A i \in DOMAIN tr :
          tr[i].ev \in {"error", "finished"} /\ tr[i].name \in {"ffplay", "ffmpeg"}

\* q is the QProcess object p, running or no longer running
SameObject(p, q) ==
    q = p \/ q = [p EXCEPT !.state = "NotRunning", !.os = "none"]

\* C31: a step in which only error and exit notifications of the player or
\* the recorder are handled logs them and changes nothing else: the session
\* state, the recording flag, the timer, the start time, stopping_radio, the
\* status line and the record button stay as they were, the receiver object
\* is untouched, every handle refers to the object it referred to, and no
\* dialog is shown.
C31_ConsumerNotificationsOnlyLogged ==
    [][ConsumerNotified(trace') =>
          /\ radio_running' = radio_running
          /\ recording' = recording
          /\ stopping_radio' = stopping_radio
          /\ record_timer_active' = record_timer_active
          /\ record_start_time' = record_start_time
          /\ record_btn_enabled' = record_btn_enabled
          /\ status_text' = status_text
          /\ proc_nrsc5' = proc_nrsc5
          /\ SameObject(proc_play, proc_play')
          /\ SameObject(proc_rec, proc_rec')
          /\ \A i \in DOMAIN trace' : ~trace'[i].visible]_vars

\* the recorder of an active recording has exited by itself and its exit has
\* been handled; the session is still running and recording
C31_Witness ==
    /\ ConsumerNotified(trace)
    /\ \E i \in DOMAIN trace :
          trace[i].ev = "finished" /\ trace[i].ref = "proc_rec" /\ trace[i].cause = "own"
    /\ radio_running /\ recording
    /\ proc_rec.state = "NotRunning"

(* ---------------- C32 ---------------- *)
\* what a session collects: the station point, the BER series, the
\* now-playing fields, the last recorded triple, the history, the log and the
\* position result
SessionData ==
    <<station_lat, station_lon, station_alt, ber_history, title_label,
      artist_label, album_label, last_title, last_artist, last_album,
      history_table, log_text, relpos_text, vert_text>>

FreshSessionData ==
    <<NoneNumber, NoneNumber, NoneNumber, <<>>, Dash, Dash, Dash, NoneText,
      NoneText, NoneText, <<>>, <<>>, NotAvailable, NotAvailable>>

UserPoint == <<user_lat, user_lon, user_alt, user_lat_edit, user_lon_edit, user_alt_edit>>

\* C32: a step that takes the session from Idle to Running leaves the session
\* data fresh (station point None, BER series, history and log empty, the
\* now-playing fields showing nothing, no last triple, position 'N/A') and
\* the user point as it was; a step that ends with the session Idle (a stop,
\* a start that failed) leaves the session data and the user point as they
\* were.
C32_FreshSessionOnStart ==
    [][/\ (~radio_running /\ radio_running') =>
             SessionData' = FreshSessionData /\ UserPoint' = UserPoint
       /\ ~radio_running' => SessionData' = SessionData /\ UserPoint' = UserPoint]_vars

\* a session of the located user has just started and holds nothing
C32_Witness ==
    /\ radio_running
    /\ \E i \in DOMAIN trace : trace[i].ev = "started" /\ trace[i].name = "nrsc5"
    /\ SessionData = FreshSessionData
    /\ user_lat = Number(35880)

\* a session has been stopped, or a start has failed, with the data of the
\* session still there
C32_WitnessKept ==
    /\ ~radio_running
    /\ trace # <<>>
    /\ \E i \in DOMAIN trace : trace[i].ev = "dialog" /\ trace[i].arg = "Failed to start nrsc5."
    /\ history_table # <<>> /\ ber_history # <<>> /\ relpos_text.kind = "away"

(* ---------------- C33 ---------------- *)
\* the step ran stop_stream() while a recording was on
StoppedWhileRecording(tr) ==
    \E i \in DOMAIN tr : tr[i].ev = "stop_begin" /\ tr[i].rec

\* C33: between handlers the recording clock runs exactly when a recording
\* is on, and the start time of the recording is set exactly when a recording
\* is on; a step that ends a recording (stop_recording(), a stop, a re-tune,
\* the stop after the receiver exited, the shutdown) leaves the recording
\* off, the clock stopped and the start time unset.
C33_ClockIffRecording ==
    /\ [](/\ record_timer_active <=> recording
          /\ record_start_time <=> recording)
    /\ [][(recording /\ (~recording' \/ StoppedWhileRecording(trace'))) =>
             ~recording' /\ ~record_timer_active' /\ ~record_start_time']_vars

\* a re-tune during a recording: the session runs again, the recording and
\* its clock are off
C33_Witness ==
    /\ StoppedWhileRecording(trace)
    /\ \E i \in DOMAIN trace : trace[i].ev = "started" /\ trace[i].name = "nrsc5"
    /\ radio_running /\ ~recording /\ ~record_timer_active /\ ~record_start_time

(* ---------------- C34 ---------------- *)
\* the step handles a notification of a receiver that no handle refers to:
\* the receiver of an earlier session
EarlierReceiverNotified(tr) ==
    /\ tr # <<>>
    /\ tr[1].ev \in {"error", "finished"}
    /\ tr[1].ref = "sender" /\ tr[1].name = "nrsc5"

\* C34: a notification of the receiver of an earlier session, handled while
\* a session is Running, does not stop that session and reports no error
\* against it: the session stays Running, no stop sequence begins, nothing
\* is shown to the user and the status line stays as it was.
C34_EarlierReceiverHarmless ==
    [][(radio_running /\ EarlierReceiverNotified(trace')) =>
          /\ radio_running'
          /\ \A i \in DOMAIN trace' :
                trace'[i].ev # "stop_begin" /\ ~trace'[i].visible
          /\ status_text' = status_text
          /\ proc_nrsc5' = proc_nrsc5 /\ proc_play' = proc_play]_vars

(* ---------------- C35 ---------------- *)
\* the receivers of earlier sessions that can still emit readyRead signals
EarlierReceivers ==
    {x \in Senders : x.r = "sender" /\ x.s.sender.name = "nrsc5"}

\* C35: between handlers the handles agree with the session: neither a
\* receiver nor a player handle while Idle, both while Running; and while no
\* receiver handle is held, the handlers of receiver output and of receiver
\* diagnostics, called by a receiver of an earlier session, leave everything
\* as it is: nothing is written to a consumer, no derived state changes.
C35_HandlesAgreeWithSession ==
    /\ ~radio_running => proc_nrsc5 = None /\ proc_play = None
    /\ radio_running => proc_nrsc5 # None /\ proc_play # None
    /\ proc_nrsc5 = None =>
          \A x \in EarlierReceivers :
              /\ \A data \in 0..MaxChunks : distribute_audio_data(x.s, data) = x.s
              /\ \A text \in DiagTexts : parse_metadata_output(x.s, text) = x.s

\* the session is Idle after it collected a log, and the receiver of that
\* session, killed and let go of, is still running
C35_Witness ==
    /\ ~radio_running /\ proc_nrsc5 = None /\ proc_play = None
    /\ log_text # <<>>
    /\ \E x \in EarlierReceivers : x.s.sender.state = "Running"

(* ---------------- C36 ---------------- *)
\* the step handles the exit of the current receiver, which exited by itself
OwnReceiverExit(tr) ==
    /\ tr # <<>>
    /\ tr[1].ref = "proc_nrsc5" /\ tr[1].cause = "own" /\ tr[1].depth = 0
    /\ \/ tr[1].ev = "finished"
       \/ tr[1].ev = "error" /\ tr[1].arg = "Crashed"

\* C36: until the window is closed, stopping_radio is false between
\* handlers; and the exit of the current receiver by itself, handled while
\* the session is Running, is not reported as 'terminated (user stop)' and is
\* followed in the same handler by the stop sequence, which leaves the
\* session Idle.
C36_FlagDoesNotLeak ==
    /\ [](~closed => ~stopping_radio)
    /\ [][(~closed /\ radio_running /\ OwnReceiverExit(trace')) =>
             /\ ~trace'[1].flag
             /\ trace'[1].report # "terminated (user stop)"
             /\ \E i \in DOMAIN trace' : trace'[i].ev = "stop_begin"
             /\ ~radio_running']_vars

\* a session that followed a stop by the user has been stopped because its
\* receiver exited by itself; the receiver killed by the user's stop is
\* still there
C36_Witness ==
    /\ ~closed /\ ~stopping_radio /\ ~radio_running
    /\ OwnReceiverExit(trace)
    /\ \E i \in DOMAIN trace : trace[i].ev = "stop_begin"
    /\ \E o \in BagToSet(orphans) : o.name = "nrsc5" /\ o.sigflag

====
